---- MODULE Spec2Model ----
(***************************************************************************)
(* PySudoku: the grid model, the literal encoders, the CNF translators,    *)
(* the SAT-backed solver sessions and the puzzle generator.                *)
(*                                                                         *)
(* Two packages live in the repository: the application's                  *)
(* src/PySudoku/model/sudoku (randomised literal mapping, CardEnc rules,   *)
(* workers) and the older src/sudoku (arithmetic literal mapping, pairwise *)
(* rules).  Definitions of the older package carry the prefix Legacy.      *)
(*                                                                         *)
(* Every operator that reads a constant of class Board takes the side of a *)
(* box, s, as its first parameter: N_ROWS = N_COLS = N_SQUARES =           *)
(* VALUE_RANGE[1] = s * s.  The program has s = N_CELLS_PER_SQUARE_SIDE =  *)
(* 3.  Pure functions are checked with s = 3; the state machines that need *)
(* the models of a whole rules formula run on ReducedSide (the 4 x 4       *)
(* board), where the set of all solved grids can be enumerated.            *)
(***************************************************************************)
EXTENDS Integers, Sequences, FiniteSets, TLC

VARIABLES
    op,             \* the operation (or the step of it) that acted last
    arg,            \* the input the operation was given
    ret,            \* what the operation returned or raised
    board,          \* the cell values of the Board instance at hand, by (row, col)
    literal_tr,     \* Translator.__literal_tr: the shuffle outcome its
                    \* _randomized_matrix holds (0: no matrix yet)
    rules_formula,  \* Solver._rules_formula of solver.py: the shuffle outcome the
                    \* cached formula was translated under (0: no attribute yet)
    solver,         \* the solver.Solver instance the caller holds (<<>>: none):
                    \* the board it was made for and what its oracle was given
    worker          \* the workers.Solver instance the caller holds (<<>>: none)

\* The process-wide translator state and the solve sessions.
session == <<literal_tr, rules_formula, solver, worker>>

vars == <<op, arg, ret, board, literal_tr, rules_formula, solver, worker>>

\* A fresh process: no LiteralTranslator matrix, no cached rules, no sessions.
NoSession ==
    /\ literal_tr = 0
    /\ rules_formula = 0
    /\ solver = <<>>
    /\ worker = <<>>

(***************************************************************************)
(* Board constants.                                                        *)
(***************************************************************************)
N_CELLS_PER_SQUARE_SIDE == 3

ReducedSide == N_CELLS_PER_SQUARE_SIDE - 1

N_ROWS(s) == s * s

N_COLS(s) == s * s

N_SQUARES(s) == s * s

\* VALUE_RANGE = (0, 9): a pair, read as [0] and [1] in the source.
VALUE_RANGE(s) == <<0, s * s>>

\* Python's range(a, b).
PyRange(a, b) == a .. (b - 1)

\* Python's seq[i] for a list held as a TLA+ sequence: negative indices count
\* from the end; an index outside -len..len-1 raises IndexError ("IndexError").
PyIndex(seq, i) ==
    IF i >= 0 /\ i < Len(seq) THEN seq[i + 1]
    ELSE IF i < 0 /\ -i <= Len(seq) THEN seq[Len(seq) + i + 1]
    ELSE "IndexError"

\* The elements of a sequence.
Elems(seq) == {seq[i] : i \in 1 .. Len(seq)}

\* A call's outcome: a returned value or a raised exception.
Returned(v) == [exc |-> "none", val |-> v]

Raised(e) == [exc |-> e, val |-> <<>>]

(***************************************************************************)
(* Cell and Board (board.py).  A board is the arena of its cells' values,  *)
(* addressed by (row, col); the row, column and square views index it.     *)
(***************************************************************************)
Coords(s) == PyRange(0, N_ROWS(s)) \X PyRange(0, N_COLS(s))

\* A plausible slip: the upper end of the range is not tested.
ValueAccepted_NoUpper(s, new_val) ==
    ~(new_val < VALUE_RANGE(s)[1])

\* Cell.value setter: the guard of the assignment.
ValueAccepted(s, new_val) ==
    ~(new_val < VALUE_RANGE(s)[1] \/ new_val > VALUE_RANGE(s)[2])

\* Cell(value, row, col)
Cell(s, value, row, col) ==
    IF ValueAccepted(s, value)
    THEN Returned([value |-> value, row |-> row, col |-> col])
    ELSE Raised("InvalidCellValueError")

\* Board(): every cell 0.
empty_board(s) == [i \in PyRange(0, N_ROWS(s)) |-> [j \in PyRange(0, N_COLS(s)) |-> 0]]

\* cell.value = new_val on the cell (row, col) of a board.
SetValue(s, rows, row, col, new_val) ==
    IF ValueAccepted(s, new_val)
    THEN Returned([rows EXCEPT ![row][col] = new_val])
    ELSE Raised("InvalidCellValueError")

\* The cells in row-major order, as (row, col) pairs.
RowMajor(s) ==
    [k \in 1 .. (N_ROWS(s) * N_COLS(s)) |->
        <<(k - 1) \div N_COLS(s), (k - 1) % N_COLS(s)>>]

\* Board.from_matrix: the cells are set in row-major order; the first value
\* the setter refuses raises out of the call and the board is dropped.
from_matrix(s, matrix) ==
    IF \A rc \in Coords(s) : ValueAccepted(s, matrix[rc[1]][rc[2]])
    THEN Returned([i \in PyRange(0, N_ROWS(s)) |->
                     [j \in PyRange(0, N_COLS(s)) |-> matrix[i][j]]])
    ELSE Raised("InvalidCellValueError")

\* Board.to_matrix(board.rows)
to_matrix(s, rows) ==
    [i \in PyRange(0, N_ROWS(s)) |-> [j \in PyRange(0, N_COLS(s)) |-> rows[i][j]]]

\* Board.get_cells(used) without row/col filter: row-major, as cells.
get_cells(s, rows, used) ==
    LET test(rc) == IF used THEN rows[rc[1]][rc[2]] # 0 ELSE rows[rc[1]][rc[2]] = 0
        kept == SelectSeq(RowMajor(s), test)
    IN [k \in 1 .. Len(kept) |->
          [value |-> rows[kept[k][1]][kept[k][2]], row |-> kept[k][1], col |-> kept[k][2]]]

square_to_coord(s, square, cell) ==
    LET row == ((square \div s) * s) + (cell \div s)
        col == ((square % s) * s) + (cell % s)
    IN <<row, col>>

coord_to_square(s, row, col) ==
    LET square == ((row \div s) * s) + (col \div s)
        cell == ((row % s) * s) + (col % s)
    IN <<square, cell>>

(***************************************************************************)
(* The arithmetic literal mapping of src/sudoku/translators.py.            *)
(***************************************************************************)
\* A plausible slip: the row coefficient forgets the factor N_COLS.
coord_to_literal_flat(s, row, col, value) ==
    value + (VALUE_RANGE(s)[2] * col) + (VALUE_RANGE(s)[2] * row) + 1

\* CnfTranslator._coord_to_literal
coord_to_literal(s, row, col, value) ==
    LET col_coefficent == VALUE_RANGE(s)[2]
        row_coefficent == col_coefficent * N_COLS(s)
    IN value + (col_coefficent * col) + (row_coefficent * row) + 1

\* ResultTranslator._literal_to_coord
literal_to_coord(s, literal) ==
    LET lit == literal - 1
        col_coefficent == VALUE_RANGE(s)[2]
        row_coefficent == N_COLS(s) * col_coefficent
        row == lit \div row_coefficent
        col == (lit - (row * row_coefficent)) \div col_coefficent
        value == lit - (col * col_coefficent) - (row * row_coefficent)
    IN <<row, col, value>>

(***************************************************************************)
(* InstanceTranslator and ResultTranslator of src/sudoku/translators.py.   *)
(***************************************************************************)
\* InstanceTranslator._cell_to_literal
LegacyCellToLiteral(s, cell) ==
    coord_to_literal(s, cell.row, cell.col, cell.value - 1)

\* InstanceTranslator.translate: one unit clause per used cell, row-major.
LegacyInstanceTranslate(s, rows) ==
    LET cells == get_cells(s, rows, TRUE)
    IN [k \in 1 .. Len(cells) |-> <<LegacyCellToLiteral(s, cells[k])>>]

\* ResultTranslator._translate_sat_result: a zero matrix, then every positive
\* literal writes value + 1 at its (row, col), in the order of the result, so
\* the last writer of a cell wins; a literal whose row is off the matrix
\* raises IndexError.
LegacyTranslateSatResult(s, result) ==
    LET written == {i \in 1 .. Len(result) : result[i] > 0}
        coord == [i \in written |-> literal_to_coord(s, result[i])]
        off == {i \in written : ~ /\ coord[i][1] \in PyRange(0, N_ROWS(s))
                                   /\ coord[i][2] \in PyRange(0, N_COLS(s))}
        writers(r, c) == {i \in written : coord[i][1] = r /\ coord[i][2] = c}
        last(r, c) == CHOOSE i \in writers(r, c) : \A j \in writers(r, c) : j <= i
    IN IF off # {} THEN Raised("IndexError")
       ELSE Returned([r \in PyRange(0, N_ROWS(s)) |->
                         [c \in PyRange(0, N_COLS(s)) |->
                             IF writers(r, c) = {} THEN 0
                             ELSE coord[last(r, c)][3] + 1]])

\* ResultTranslator.translate
LegacyResultTranslate(s, sat_result) ==
    LET m == LegacyTranslateSatResult(s, sat_result)
    IN IF m.exc = "none" THEN from_matrix(s, m.val) ELSE m

(***************************************************************************)
(* LiteralTranslator of src/PySudoku/model/sudoku/translators.py: one      *)
(* instance is shared by every translator Translator.create hands out.     *)
(* Its _randomized_matrix is the outcome of shuffle(values); the model     *)
(* names the outcome by its index k (0: the matrix is still []).           *)
(***************************************************************************)
\* The number of different outcomes shuffle() has in the model.
NumShuffles == 3

\* LiteralTranslator.max_problem_variable: the last of _all_values = 1..N^3.
max_problem_variable(s) == N_ROWS(s) * N_COLS(s) * VALUE_RANGE(s)[2]

\* values[i - 1] after shuffle(values) with outcome k, values being 1..n:
\* 1 leaves the order, 2 reverses it, k >= 3 strides through it by 2k - 1
\* (coprime to 4^3 and 9^3 for the outcomes used).
Shuffled(n, k, i) ==
    IF k = 1 THEN i
    ELSE IF k = 2 THEN n + 1 - i
    ELSE (((i - 1) * ((2 * k) - 1)) % n) + 1

\* LiteralTranslator.randomize_values: _randomized_matrix[i][j] is the slice of
\* VALUE_RANGE[1] shuffled values starting at j * 9 + i * 9 * 9.
randomized_matrix(s, k, i, j) ==
    LET start_index == (j * VALUE_RANGE(s)[2]) + (i * N_COLS(s) * VALUE_RANGE(s)[2])
    IN [p \in 1 .. VALUE_RANGE(s)[2] |->
          Shuffled(max_problem_variable(s), k, start_index + p)]

\* LiteralTranslator._cell_to_literal
cell_to_literal(s, k, cell) ==
    PyIndex(randomized_matrix(s, k, cell.row, cell.col), cell.value - 1)

\* A plausible slip: the digit index is returned instead of the value.
literal_to_value_NoOffset(s, k, row, col, valid_values) ==
    LET cell == randomized_matrix(s, k, row, col)
        hit(value) == cell[value] \in valid_values
        trues == SelectSeq([value \in 1 .. Len(cell) |-> value], hit)
    IN IF Len(trues) = 0 THEN 0 ELSE trues[1] - 1

\* LiteralTranslator._literal_to_value: enumerate(cell) counts from 0 and the
\* comprehension keeps value + 1, i.e. the 1-based position in the slice.
literal_to_value(s, k, row, col, valid_values) ==
    LET cell == randomized_matrix(s, k, row, col)
        hit(value) == cell[value] \in valid_values
        trues == SelectSeq([value \in 1 .. Len(cell) |-> value], hit)
    IN IF Len(trues) = 0 THEN 0 ELSE trues[1]

\* InstanceTranslator.translate: one unit clause per used cell, row-major.
InstanceTranslate(s, k, rows) ==
    LET cells == get_cells(s, rows, TRUE)
    IN [c \in 1 .. Len(cells) |-> <<cell_to_literal(s, k, cells[c])>>]

\* ResultTranslator._translate_sat_result
translate_sat_result(s, k, result) ==
    LET valid_values ==
            {value \in Elems(result) : value > 0 /\ value <= max_problem_variable(s)}
    IN [i \in PyRange(0, N_ROWS(s)) |->
          [j \in PyRange(0, N_COLS(s)) |-> literal_to_value(s, k, i, j, valid_values)]]

\* ResultTranslator.translate
ResultTranslate(s, k, sat_result) ==
    from_matrix(s, translate_sat_result(s, k, sat_result))

\* [literal for cong in formula for literal in cong] on unit clauses
Flatten(formula) == [i \in 1 .. Len(formula) |-> formula[i][1]]

(***************************************************************************)
(* SpecCoord: the two directions of the arithmetic mapping applied to      *)
(* every (row, col, digit index) of the 9 x 9 board.                       *)
(***************************************************************************)
Triples(s) ==
    PyRange(0, N_ROWS(s)) \X PyRange(0, N_COLS(s)) \X PyRange(0, VALUE_RANGE(s)[2])

CoordInit ==
    /\ op = "none"
    /\ arg \in Triples(N_CELLS_PER_SQUARE_SIDE)
    /\ ret = <<>>
    /\ board = <<>>
    /\ NoSession

CoordEncode ==
    /\ op = "none"
    /\ op' = "coord_to_literal"
    /\ ret' = <<coord_to_literal(N_CELLS_PER_SQUARE_SIDE, arg[1], arg[2], arg[3])>>
    /\ UNCHANGED <<arg, board, session>>

CoordDecode ==
    /\ op = "coord_to_literal"
    /\ op' = "literal_to_coord"
    /\ ret' = <<ret[1], literal_to_coord(N_CELLS_PER_SQUARE_SIDE, ret[1])>>
    /\ UNCHANGED <<arg, board, session>>

CoordNext == CoordEncode \/ CoordDecode

SpecCoord == CoordInit /\ [][CoordNext]_vars

\* The literals of all triples of the 9 x 9 board, as the encoder computes them.
LiteralImage ==
    {coord_to_literal(N_CELLS_PER_SQUARE_SIDE, t[1], t[2], t[3]) :
        t \in Triples(N_CELLS_PER_SQUARE_SIDE)}

NumTriples == Cardinality(Triples(N_CELLS_PER_SQUARE_SIDE))

\* C8: the encoder maps the 729 triples (row, col, digit index) one-to-one onto
\* 1..729 (every literal is in range, the image is all of 1..729 and has as many
\* elements as there are triples), and decoding an encoded triple gives it back.
C8_LiteralBijection ==
    /\ op = "coord_to_literal" => ret[1] \in 1 .. (9 * 9 * 9)
    /\ op = "literal_to_coord" => ret[2] = arg
    /\ LiteralImage = 1 .. (9 * 9 * 9)
    /\ Cardinality(LiteralImage) = NumTriples

\* A triple in the last row, column and digit has been encoded to 729 and decoded.
C8_Witness ==
    /\ op = "literal_to_coord"
    /\ arg = <<8, 8, 8>>
    /\ ret[1] = 729
    /\ ret[2] = <<8, 8, 8>>

(***************************************************************************)
(* SpecCell: cells of a 9 x 9 board are constructed, written and read.     *)
(***************************************************************************)
\* Values offered to the setter run from -ValueSlack to 9 + ValueSlack.
ValueSlack == 2

OfferedValues ==
    (VALUE_RANGE(N_CELLS_PER_SQUARE_SIDE)[1] - ValueSlack)
        .. (VALUE_RANGE(N_CELLS_PER_SQUARE_SIDE)[2] + ValueSlack)

\* The cell the writes go to; the other cells are bystanders.
WrittenCells == {<<4, 7>>}

\* Matrices handed to from_matrix: the value v at one written cell, 0 elsewhere.
OneValueMatrix(rc, v) ==
    [i \in PyRange(0, N_ROWS(N_CELLS_PER_SQUARE_SIDE)) |->
        [j \in PyRange(0, N_COLS(N_CELLS_PER_SQUARE_SIDE)) |->
            IF <<i, j>> = rc THEN v ELSE 0]]

CellInit ==
    /\ op = "none"
    /\ arg = <<>>
    /\ ret = <<>>
    /\ board \in {empty_board(N_CELLS_PER_SQUARE_SIDE), OneValueMatrix(<<8, 8>>, 3),
                  OneValueMatrix(<<4, 6>>, 9)}
    /\ NoSession

\* cell.value = v on a cell of the board
CellSet ==
    \E rc \in WrittenCells, v \in OfferedValues :
        LET out == SetValue(N_CELLS_PER_SQUARE_SIDE, board, rc[1], rc[2], v) IN
        /\ op' = "set"
        /\ arg' = [row |-> rc[1], col |-> rc[2], value |-> v, before |-> board]
        /\ ret' = out.exc
        /\ board' = IF out.exc = "none" THEN out.val ELSE board
        /\ UNCHANGED session

\* cell.value read back
CellGet ==
    \E rc \in WrittenCells :
        /\ op' = "get"
        /\ arg' = [row |-> rc[1], col |-> rc[2], value |-> 0, before |-> board]
        /\ ret' = board[rc[1]][rc[2]]
        /\ UNCHANGED <<board, session>>

\* Cell(v, row, col): a cell outside any board
CellNew ==
    \E rc \in WrittenCells, v \in OfferedValues :
        LET out == Cell(N_CELLS_PER_SQUARE_SIDE, v, rc[1], rc[2]) IN
        /\ op' = "Cell"
        /\ arg' = [row |-> rc[1], col |-> rc[2], value |-> v, before |-> board]
        /\ ret' = IF out.exc = "none" THEN out.val.value ELSE out.exc
        /\ UNCHANGED <<board, session>>

\* board = Board.from_matrix(m): on a raise the name keeps the old board
CellFromMatrix ==
    \E rc \in WrittenCells, v \in OfferedValues :
        LET out == from_matrix(N_CELLS_PER_SQUARE_SIDE, OneValueMatrix(rc, v)) IN
        /\ op' = "from_matrix"
        /\ arg' = [row |-> rc[1], col |-> rc[2], value |-> v, before |-> board]
        /\ ret' = out.exc
        /\ board' = IF out.exc = "none" THEN out.val ELSE board
        /\ UNCHANGED session

CellNext == CellSet \/ CellGet \/ CellNew \/ CellFromMatrix

SpecCell == CellInit /\ [][CellNext]_vars

\* C10: a write of v (by the setter, by Cell(...) or by from_matrix) succeeds iff
\* 0 <= v <= 9 and then the cell reads v, unclamped; otherwise it raises
\* InvalidCellValueError and the board is as before; every cell of the board
\* holds a value in [0,9] in every state.
C10_CellValueRange ==
    /\ \A rc \in Coords(N_CELLS_PER_SQUARE_SIDE) : board[rc[1]][rc[2]] \in 0 .. 9
    /\ op \in {"set", "from_matrix"} =>
          /\ (ret = "none") <=> (0 <= arg.value /\ arg.value <= 9)
          /\ ret = "none" => board[arg.row][arg.col] = arg.value
          /\ ret # "none" => ret = "InvalidCellValueError" /\ board = arg.before
    /\ op = "set" /\ ret = "none" =>
          board = [arg.before EXCEPT ![arg.row][arg.col] = arg.value]
    /\ op = "Cell" =>
          IF 0 <= arg.value /\ arg.value <= 9
          THEN ret = arg.value
          ELSE ret = "InvalidCellValueError"
    /\ op = "get" => ret = board[arg.row][arg.col] /\ ret \in 0 .. 9

\* A cell holding 9 refused the value 10 and still holds 9.
C10_Witness ==
    /\ op = "set"
    /\ arg.value = 10
    /\ ret = "InvalidCellValueError"
    /\ arg.before[arg.row][arg.col] = 9
    /\ board[arg.row][arg.col] = 9

(***************************************************************************)
(* SpecRoundTrip: a grid is translated to its instance literals and the    *)
(* literals are decoded, by the translators of either package, under one   *)
(* literal mapping.                                                        *)
(***************************************************************************)
\* A solved grid of side s: row r is the first row shifted by s(r mod s) + r div s.
BaseGrid(s) ==
    [r \in PyRange(0, N_ROWS(s)) |->
        [c \in PyRange(0, N_COLS(s)) |->
            ((((s * (r % s)) + (r \div s)) + c) % N_COLS(s)) + 1]]

\* The grid g with the cells of `blank` emptied.
Blanked(s, g, blank) ==
    [r \in PyRange(0, N_ROWS(s)) |->
        [c \in PyRange(0, N_COLS(s)) |-> IF <<r, c>> \in blank THEN 0 ELSE g[r][c]]]

RoundTripGrids ==
    LET s == N_CELLS_PER_SQUARE_SIDE IN
    {empty_board(s), BaseGrid(s)}
    \cup {OneValueMatrix(rc, v) : rc \in {<<0, 0>>, <<4, 7>>, <<8, 8>>}, v \in 1 .. 9}
    \cup {Blanked(s, BaseGrid(s), {rc \in Coords(s) : rc[1] = r}) : r \in 0 .. 8}
    \cup {Blanked(s, BaseGrid(s), {rc \in Coords(s) : rc[2] # c}) : c \in 0 .. 8}
    \cup {[r \in 0 .. 8 |-> [c \in 0 .. 8 |-> (r + c + d) % 10]] : d \in 0 .. 9}

RoundTripInit ==
    /\ op = "none"
    /\ \E g \in RoundTripGrids :
          \/ arg = [package |-> "sudoku", shuffle |-> 0, grid |-> g]
          \/ \E k \in 1 .. NumShuffles :
                arg = [package |-> "PySudoku", shuffle |-> k, grid |-> g]
    /\ ret = <<>>
    /\ board = from_matrix(N_CELLS_PER_SQUARE_SIDE, arg.grid).val
    /\ NoSession

\* InstanceTranslator.translate(board), flattened to its literals
RoundTripEncode ==
    /\ op = "none"
    /\ op' = "instance"
    /\ ret' = IF arg.package = "sudoku"
              THEN Flatten(LegacyInstanceTranslate(N_CELLS_PER_SQUARE_SIDE, board))
              ELSE Flatten(InstanceTranslate(N_CELLS_PER_SQUARE_SIDE, arg.shuffle, board))
    /\ UNCHANGED <<arg, board, session>>

\* ResultTranslator.translate(literals)
RoundTripDecode ==
    /\ op = "instance"
    /\ op' = "result"
    /\ LET out == IF arg.package = "sudoku"
                  THEN LegacyResultTranslate(N_CELLS_PER_SQUARE_SIDE, ret)
                  ELSE ResultTranslate(N_CELLS_PER_SQUARE_SIDE, arg.shuffle, ret)
       IN /\ ret' = out.exc
          /\ board' = IF out.exc = "none" THEN out.val ELSE board
    /\ UNCHANGED <<arg, session>>

RoundTripNext == RoundTripEncode \/ RoundTripDecode

SpecRoundTrip == RoundTripInit /\ [][RoundTripNext]_vars

\* C7: decoding the literals of the unit clauses the instance translation emits
\* for a grid G gives a board equal to G in every cell, under each literal
\* mapping and in both packages; the literals are as many as the filled cells.
C7_RoundTrip ==
    /\ op = "instance" =>
          Len(ret) = Cardinality({rc \in Coords(N_CELLS_PER_SQUARE_SIDE) :
                                     arg.grid[rc[1]][rc[2]] # 0})
    /\ op = "result" =>
          /\ ret = "none"
          /\ \A rc \in Coords(N_CELLS_PER_SQUARE_SIDE) :
                board[rc[1]][rc[2]] = arg.grid[rc[1]][rc[2]]

\* A grid with filled and empty cells went through a shuffled mapping and back.
C7_Witness ==
    /\ op = "result"
    /\ arg.package = "PySudoku"
    /\ arg.shuffle = 3
    /\ arg.grid[0][0] = 0
    /\ arg.grid[0][8] = 9
    /\ board[0][8] = 9
    /\ board[0][0] = 0

(***************************************************************************)
(* CNF formulas: a formula is a sequence of clauses, a clause a sequence   *)
(* of non-zero integers (v: variable v is true, -v: it is false).  An      *)
(* assignment is the set of its true variables.                            *)
(***************************************************************************)
\* A clause holds under the assignment T.
Holds(clause, T) ==
    \E i \in 1 .. Len(clause) :
        IF clause[i] > 0 THEN clause[i] \in T ELSE (- clause[i]) \notin T

\* CardEnc.atmost(lits=formula, top_id=top, bound=1), PySAT's default encoding
\* (sequential counter): the fresh variables top_id + 1 .. top_id + n - 1 carry
\* "a literal at or before position i is true".
atmost(lits, top_id) ==
    LET n == Len(lits)
        sv(i) == top_id + i
        step(i) == << <<- lits[i], sv(i)>>, <<- sv(i - 1), sv(i)>>,
                      <<- lits[i], - sv(i - 1)>> >>
    IN [clauses |->
            << <<- lits[1], sv(1)>> >>
            \o [j \in 1 .. (3 * (n - 2)) |-> step(2 + ((j - 1) \div 3))[((j - 1) % 3) + 1]]
            \o << <<- lits[n], - sv(n - 1)>> >>,
        nv |-> top_id + n - 1]

\* The four calls of RulesTranslator.translate, in their order.
Families == <<"values", "columns", "rows", "squares">>

\* range_first, range_second and range_variable of each family: the same in
\* both packages.
FamilyRanges(s, family) ==
    IF family = "values"
    THEN [first |-> <<0, N_ROWS(s)>>, second |-> <<0, N_COLS(s)>>,
          variable |-> VALUE_RANGE(s)]
    ELSE IF family = "columns"
    THEN [first |-> VALUE_RANGE(s), second |-> <<0, N_COLS(s)>>,
          variable |-> <<0, N_ROWS(s)>>]
    ELSE IF family = "rows"
    THEN [first |-> VALUE_RANGE(s), second |-> <<0, N_ROWS(s)>>,
          variable |-> <<0, N_COLS(s)>>]
    ELSE [first |-> VALUE_RANGE(s), second |-> <<0, N_SQUARES(s)>>,
          variable |-> <<0, s * s>>]

\* A plausible slip: the column family maps its arguments as the row family.
map_to_coord_ColumnsAsRows(s, family, x, y, z) ==
    IF family = "values" THEN <<z, x, y>>
    ELSE IF family = "columns" THEN <<x, y, z>>
    ELSE IF family = "rows" THEN <<x, y, z>>
    ELSE <<x, square_to_coord(s, y, z)[1], square_to_coord(s, y, z)[2]>>

\* The map_to_coord lambdas of PySudoku's RulesTranslator: the arguments
\* (value, row, col) of Cell.  The value runs over 0..8, and _cell_to_literal
\* reads position value - 1, so 0 names the last position of the cell's slice.
map_to_coord(s, family, x, y, z) ==
    IF family = "values" THEN <<z, x, y>>
    ELSE IF family = "columns" THEN <<x, z, y>>
    ELSE IF family = "rows" THEN <<x, y, z>>
    ELSE <<x, square_to_coord(s, y, z)[1], square_to_coord(s, y, z)[2]>>

\* The map_to_coord lambdas of src/sudoku's RulesTranslator: the arguments
\* (row, col, value) of _coord_to_literal, value being the digit index.
LegacyMapToCoord(s, family, x, y, z) ==
    LET n_cell_per_side == s
        row == ((y \div n_cell_per_side) * n_cell_per_side) + (z \div n_cell_per_side)
        col == ((y % n_cell_per_side) * n_cell_per_side) + (z % n_cell_per_side)
    IN IF family = "values" THEN <<x, y, z>>
       ELSE IF family = "columns" THEN <<z, y, x>>
       ELSE IF family = "rows" THEN <<y, z, x>>
       ELSE <<row, col, x>>

\* The number of (first, second) pairs of a family, and of all four.
GroupsPerFamily(s) == N_ROWS(s) * N_COLS(s)

NumGroups(s) == Len(Families) * GroupsPerFamily(s)

\* The g-th pass (g = 0, 1, ...) through the body of the two loops of
\* RulesTranslator._uniqueness of PySudoku under the shuffle outcome k: the
\* at-least-one clause and the clauses of CardEnc.atmost, whose top_id is the
\* nv of the pass before (max_problem_variable for the first).
RulesGroup(s, k, g) ==
    LET family == Families[(g \div GroupsPerFamily(s)) + 1]
        rg == FamilyRanges(s, family)
        n_second == rg.second[2] - rg.second[1]
        first == rg.first[1] + ((g % GroupsPerFamily(s)) \div n_second)
        second == rg.second[1] + ((g % GroupsPerFamily(s)) % n_second)
        n == rg.variable[2] - rg.variable[1]
        formula ==
            [i \in 1 .. n |->
                LET t == map_to_coord(s, family, first, second, rg.variable[1] + i - 1)
                IN cell_to_literal(s, k, Cell(s, t[1], t[2], t[3]).val)]
        top == max_problem_variable(s) + (g * (n - 1))
        card == atmost(formula, top)
    IN [lits |-> formula, clauses |-> <<formula>> \o card.clauses,
        aux |-> (top + 1) .. card.nv]

\* A plausible slip: the inner loop starts at the range's start, so every
\* ordered pair of different indices is emitted.
IndexPairs_Ordered(n) ==
    LET ne(p) == p[1] # p[2]
    IN SelectSeq([q \in 1 .. (n * n) |-> <<((q - 1) \div n) + 1, ((q - 1) % n) + 1>>], ne)

\* The index pairs (i, j), i < j, in the order of the two loops over
\* range(lo, hi - 1) and range(i + 1, hi).
IndexPairs(n) ==
    LET lt(p) == p[1] < p[2]
    IN SelectSeq([q \in 1 .. (n * n) |-> <<((q - 1) \div n) + 1, ((q - 1) % n) + 1>>], lt)

\* The same pass in src/sudoku: the at-least-one clause, then one clause
\* [-lit_i, -lit_j] for every i < j.  No variable is added.
LegacyRulesGroup(s, g) ==
    LET family == Families[(g \div GroupsPerFamily(s)) + 1]
        rg == FamilyRanges(s, family)
        n_second == rg.second[2] - rg.second[1]
        first == rg.first[1] + ((g % GroupsPerFamily(s)) \div n_second)
        second == rg.second[1] + ((g % GroupsPerFamily(s)) % n_second)
        n == rg.variable[2] - rg.variable[1]
        formula ==
            [i \in 1 .. n |->
                LET t == LegacyMapToCoord(s, family, first, second, rg.variable[1] + i - 1)
                IN coord_to_literal(s, t[1], t[2], t[3])]
        pairs == IndexPairs(n)
    IN [lits |-> formula,
        clauses |-> <<formula>>
                    \o [q \in 1 .. Len(pairs) |->
                           <<- formula[pairs[q][1]], - formula[pairs[q][2]]>>],
        aux |-> {}]

\* The passes of RulesTranslator.translate, in order (k = 0: src/sudoku).
RulesGroups(s, k) ==
    [g \in 1 .. NumGroups(s) |->
        IF k = 0 THEN LegacyRulesGroup(s, g - 1) ELSE RulesGroup(s, k, g - 1)]

\* self.result after the passes: their clauses, one pass after the other.
Clauses(groups) ==
    LET per == Len(groups[1].clauses)
    IN [i \in 1 .. (Len(groups) * per) |->
          groups[((i - 1) \div per) + 1].clauses[((i - 1) % per) + 1]]

\* RulesTranslator.translate
rules_translate(s, k) == Clauses(RulesGroups(s, k))

\* The assignments to the added variables of one pass that, together with the
\* assignment T to the cell variables, make all clauses of the pass hold.
GroupExtensions(group, T) ==
    {A \in SUBSET group.aux : \A i \in 1 .. Len(group.clauses) :
                                 Holds(group.clauses[i], T \cup A)}

\* The oracle on rules + units: T extends to a model iff the unit clauses hold
\* and every pass has an extension (the added variables of different passes
\* are different, so the passes extend independently).
Satisfies(groups, units, T) ==
    /\ \A i \in 1 .. Len(units) : Holds(units[i], T)
    /\ \A g \in 1 .. Len(groups) :
          \E A \in SUBSET groups[g].aux :
              \A i \in 1 .. Len(groups[g].clauses) : Holds(groups[g].clauses[i], T \cup A)

\* The model T extends to, as get_model() lists it: variable v or -v for each
\* v in 1..nv (the concatenation has the list built once).
ModelOf(s, groups, T) ==
    LET added == UNION {CHOOSE A \in GroupExtensions(groups[g], T) : TRUE :
                            g \in 1 .. Len(groups)}
        nv == max_problem_variable(s) + Cardinality(UNION {groups[g].aux : g \in 1 .. Len(groups)})
        true == T \cup added
    IN [v \in 1 .. nv |-> IF v \in true THEN v ELSE - v] \o <<>>

(***************************************************************************)
(* Solved grids, defined from the rules of the game alone.                 *)
(***************************************************************************)
Digits(s) == 1 .. VALUE_RANGE(s)[2]

\* The cells of box b: rows and columns with the same quotient by the side.
BoxCells(s, b) ==
    {rc \in Coords(s) : (rc[1] \div s) = (b \div s) /\ (rc[2] \div s) = (b % s)}

\* Every row, every column and every box holds every digit exactly once.
IsSolved(s, g) ==
    /\ \A r \in PyRange(0, N_ROWS(s)) :
          \A d \in Digits(s) : Cardinality({c \in PyRange(0, N_COLS(s)) : g[r][c] = d}) = 1
    /\ \A c \in PyRange(0, N_COLS(s)) :
          \A d \in Digits(s) : Cardinality({r \in PyRange(0, N_ROWS(s)) : g[r][c] = d}) = 1
    /\ \A b \in PyRange(0, N_SQUARES(s)) :
          \A d \in Digits(s) : Cardinality({rc \in BoxCells(s, b) : g[rc[1]][rc[2]] = d}) = 1

\* The rows a solved grid can have.
RowPermutations(s) ==
    {p \in [PyRange(0, N_COLS(s)) -> Digits(s)] :
        \A a, b \in PyRange(0, N_COLS(s)) : a # b => p[a] # p[b]}

\* The row p can follow the rows of `above` (a sequence of rows) in a solved grid.
RowFits(s, above, p) ==
    \A i \in 1 .. Len(above) :
        /\ \A c \in PyRange(0, N_COLS(s)) : above[i][c] # p[c]
        /\ ((i - 1) \div s) = (Len(above) \div s) =>
              \A c, d \in PyRange(0, N_COLS(s)) :
                  (c \div s) = (d \div s) => above[i][c] # p[d]

RECURSIVE TopRows(_, _)
\* The first n rows of all solved grids.
TopRows(s, n) ==
    IF n = 0 THEN {<<>>}
    ELSE {Append(x[1], x[2]) :
             x \in {y \in TopRows(s, n - 1) \X RowPermutations(s) : RowFits(s, y[1], y[2])}}

\* All solved grids of the reduced board, as boards.
SolvedGrids ==
    {[r \in PyRange(0, N_ROWS(ReducedSide)) |-> rows[r + 1]] :
        rows \in TopRows(ReducedSide, N_ROWS(ReducedSide))}

\* The grid g agrees with the puzzle p on every filled cell of p.
Extends(s, g, p) ==
    \A rc \in Coords(s) : p[rc[1]][rc[2]] # 0 => g[rc[1]][rc[2]] = p[rc[1]][rc[2]]

\* The valid completions of a puzzle of the reduced board.
Completions(p) == {g \in SolvedGrids : Extends(ReducedSide, g, p)}

(***************************************************************************)
(* SpecRules: the rules formula of either package and the instance formula *)
(* of a puzzle are given to the oracle together with an assignment to the  *)
(* cell variables; the oracle says whether the assignment extends to a     *)
(* model, and a model is decoded.  Reduced board.                          *)
(***************************************************************************)
\* The passes of the rules translation under each mapping (0: src/sudoku).
ReducedRules == [k \in 0 .. NumShuffles |-> RulesGroups(ReducedSide, k)]

\* The (row, col, value) triples of the filled cells of a grid.
TriplesOf(s, g) ==
    {<<rc[1], rc[2], g[rc[1]][rc[2]]>> : rc \in {x \in Coords(s) : g[x[1]][x[2]] # 0}}

\* The variable of "cell (row, col) holds value" under mapping k: what the
\* instance translators emit for a cell.
TripleLiteral(s, k, t) ==
    IF k = 0
    THEN LegacyCellToLiteral(s, [value |-> t[3], row |-> t[1], col |-> t[2]])
    ELSE cell_to_literal(s, k, [value |-> t[3], row |-> t[1], col |-> t[2]])

\* Grids that break one family only: the rows, the columns, the boxes.
RowsBroken == << <<1, 3, 1, 3>>, <<2, 4, 2, 4>>, <<3, 1, 3, 1>>, <<4, 2, 4, 2>> >>

ColumnsBroken == << <<1, 2, 3, 4>>, <<3, 4, 1, 2>>, <<1, 2, 3, 4>>, <<3, 4, 1, 2>> >>

BoxesBroken == << <<1, 2, 3, 4>>, <<2, 3, 4, 1>>, <<3, 4, 1, 2>>, <<4, 1, 2, 3>> >>

AsBoard(s, m) ==
    [r \in PyRange(0, N_ROWS(s)) |-> [c \in PyRange(0, N_COLS(s)) |-> m[r + 1][c + 1]]]

\* The assignments offered: every solved grid; a solved grid with one cell
\* unset, with one cell holding two values, with one cell changed; the grids
\* breaking one family; nothing true.
RulesCandidates ==
    LET s == ReducedSide
        base == TriplesOf(s, BaseGrid(s))
        all == Coords(s) \X Digits(s)
    IN {TriplesOf(s, g) : g \in SolvedGrids}
       \cup {base \ {t} : t \in base}
       \cup {base \cup {<<x[1][1], x[1][2], x[2]>>} : x \in all}
       \cup {TriplesOf(s, [BaseGrid(s) EXCEPT ![x[1][1]][x[1][2]] = x[2]]) : x \in all}
       \cup {TriplesOf(s, AsBoard(s, m)) : m \in {RowsBroken, ColumnsBroken, BoxesBroken}}
       \cup {{}}

\* The puzzles: no clue; the top-left box and the last row of the base grid.
RulesPuzzles ==
    {empty_board(ReducedSide),
     Blanked(ReducedSide, BaseGrid(ReducedSide),
             {rc \in Coords(ReducedSide) : ~(rc[1] = 3 \/ (rc[1] < 2 /\ rc[2] < 2))})}

RulesInit ==
    /\ op = "none"
    /\ \E k \in 0 .. NumShuffles, p \in RulesPuzzles, cells \in RulesCandidates :
          /\ arg = [package |-> IF k = 0 THEN "sudoku" ELSE "PySudoku", shuffle |-> k,
                    puzzle |-> p, cells |-> cells]
          /\ board = p
    /\ ret = <<>>
    /\ NoSession

\* RulesTranslator.translate(board) and InstanceTranslator.translate(board)
RulesTranslate ==
    /\ op = "none"
    /\ op' = "formula"
    /\ ret' = [rules |-> Len(Clauses(ReducedRules[arg.shuffle])),
               instance |-> IF arg.shuffle = 0
                            THEN LegacyInstanceTranslate(ReducedSide, board)
                            ELSE InstanceTranslate(ReducedSide, arg.shuffle, board)]
    /\ UNCHANGED <<arg, board, session>>

\* The oracle is asked whether the offered assignment extends to a model of
\* rules + instance; a model is decoded by ResultTranslator.translate.
RulesModel ==
    /\ op = "formula"
    /\ op' = "model"
    /\ LET s == ReducedSide
           groups == ReducedRules[arg.shuffle]
           T == {TripleLiteral(s, arg.shuffle, t) : t \in arg.cells}
           sat == Satisfies(groups, ret.instance, T)
           out == IF arg.shuffle = 0
                  THEN LegacyResultTranslate(s, ModelOf(s, groups, T))
                  ELSE ResultTranslate(s, arg.shuffle, ModelOf(s, groups, T))
       IN /\ ret' = [sat |-> sat, exc |-> IF sat THEN out.exc ELSE "none"]
          /\ board' = IF sat /\ out.exc = "none" THEN out.val ELSE board
    /\ UNCHANGED <<arg, session>>

RulesNext == RulesTranslate \/ RulesModel

SpecRules == RulesInit /\ [][RulesNext]_vars

\* The offered assignment gives every cell exactly one value.
IsGrid(s, cells) ==
    \A rc \in Coords(s) :
        Cardinality({t \in cells : t[1] = rc[1] /\ t[2] = rc[2]}) = 1

\* The grid of such an assignment.
GridOf(s, cells) ==
    [r \in PyRange(0, N_ROWS(s)) |->
        [c \in PyRange(0, N_COLS(s)) |->
            (CHOOSE t \in cells : t[1] = r /\ t[2] = c)[3]]]

\* C6: an assignment to the cell variables extends to a model of rules +
\* instance iff it is a grid in which every row, column and box holds every
\* digit exactly once and which keeps the clues; the model decodes to that grid.
\* So no family is missing and none rejects a valid completion.
C6_RulesModels ==
    op = "model" =>
        /\ ret.sat <=> /\ IsGrid(ReducedSide, arg.cells)
                       /\ IsSolved(ReducedSide, GridOf(ReducedSide, arg.cells))
                       /\ Extends(ReducedSide, GridOf(ReducedSide, arg.cells), arg.puzzle)
        /\ ret.sat => /\ ret.exc = "none"
                      /\ IsSolved(ReducedSide, board)
                      /\ Extends(ReducedSide, board, arg.puzzle)
                      /\ TriplesOf(ReducedSide, board) = arg.cells

\* A completion of the puzzle with clues was found to be a model under a
\* shuffled mapping and decoded to a solved grid keeping the clues.
C6_Witness ==
    /\ op = "model"
    /\ arg.shuffle = 3
    /\ arg.puzzle[3][3] # 0
    /\ ret.sat
    /\ IsSolved(ReducedSide, board)
    /\ board[3][3] = arg.puzzle[3][3]

(***************************************************************************)
(* SpecSession: one process of the application on the reduced board.  The  *)
(* caller creates solver.Solver sessions through Solver.create, solves and *)
(* iterates them, constructs workers.Solver objects and resolves them, and *)
(* calls the Sudoku.solve facade of either package.  Process-wide state:   *)
(* the LiteralTranslator shared by all translators and the rules formula   *)
(* cached on class Solver.                                                 *)
(***************************************************************************)
\* The boards given to the sessions: a puzzle with one completion, a puzzle
\* with two, and a puzzle without any (two 4s in the third row).
SessionPuzzles ==
    {AsBoard(ReducedSide, m) :
        m \in {<< <<0, 0, 0, 0>>, <<0, 0, 1, 2>>, <<0, 3, 0, 0>>, <<0, 0, 2, 0>> >>,
               << <<0, 2, 0, 0>>, <<3, 0, 0, 0>>, <<0, 0, 0, 0>>, <<0, 0, 2, 3>> >>,
               << <<0, 2, 0, 0>>, <<0, 0, 0, 0>>, <<2, 0, 4, 4>>, <<0, 0, 0, 0>> >>}}

\* The matrices given to Sudoku.solve: the puzzles, and two matrices with one
\* entry off the range (above it, below it).
SolveMatrices ==
    SessionPuzzles
    \cup {[p EXCEPT ![1][1] = VALUE_RANGE(ReducedSide)[2] + 1] : p \in SessionPuzzles}
    \cup {[p EXCEPT ![3][0] = VALUE_RANGE(ReducedSide)[1] - 1] : p \in SessionPuzzles}

\* The instance formulas a session can hold.
SessionUnits ==
    {InstanceTranslate(ReducedSide, k, p) : k \in 1 .. NumShuffles, p \in SessionPuzzles}

\* The assignments of the solved grids under each mapping k.  Every model of
\* the rules formula built under k is one of them on the cell variables.
SolvedAssignments ==
    {[mapping |-> k,
      cells |-> {TripleLiteral(ReducedSide, k, t) : t \in TriplesOf(ReducedSide, g)}] :
        k \in 1 .. NumShuffles, g \in SolvedGrids}

\* The models that agree with T on the cell variables, as get_model() lists
\* them.  Two are listed when a pass leaves its added variables open: enough
\* to tell one model from several.
ModelsOver(s, groups, T) ==
    LET ext == [g \in 1 .. Len(groups) |-> GroupExtensions(groups[g], T)] \o <<>>
        one == UNION {CHOOSE A \in ext[g] : TRUE : g \in 1 .. Len(groups)}
        other == UNION {CHOOSE A \in ext[g] :
                           \/ A # (CHOOSE B \in ext[g] : TRUE)
                           \/ Cardinality(ext[g]) = 1 : g \in 1 .. Len(groups)}
        nv == max_problem_variable(s)
              + Cardinality(UNION {groups[g].aux : g \in 1 .. Len(groups)})
    IN {[v \in 1 .. nv |-> IF v \in T \cup added THEN v ELSE - v] \o <<>> :
           added \in {one, other}}

\* The oracle loaded with the rules formula built under a mapping and with an
\* instance formula: its models, tabulated for the formulas of the sessions.
OracleModels ==
    {[rules |-> k, units |-> u,
      models |-> UNION {ModelsOver(ReducedSide, ReducedRules[k], a.cells) :
                           a \in {x \in SolvedAssignments :
                                     /\ x.mapping = k
                                     /\ Satisfies(ReducedRules[k], u, x.cells)}}] :
        k \in 1 .. NumShuffles, u \in SessionUnits}

\* Minisat22 with the two formulas appended: the models it can report.
Models(rules, units) ==
    (CHOOSE e \in OracleModels : e.rules = rules /\ e.units = units).models

\* ResultTranslator.translate on the models of the sessions, per mapping.
DecodedAs ==
    {[mapping |-> k, model |-> m, out |-> ResultTranslate(ReducedSide, k, m)] :
        k \in 1 .. NumShuffles, m \in UNION {e.models : e \in OracleModels}}

\* _map_sat_to_board(model) while the shared mapping is k.
map_sat_to_board(k, m) ==
    (CHOOSE e \in DecodedAs : e.mapping = k /\ e.model = m).out

\* A session variable holds an object.
Live(object) == DOMAIN object # {}

SessionInit ==
    /\ op = "none"
    /\ arg = <<>>
    /\ ret = <<>>
    /\ board = <<>>
    /\ NoSession

\* RulesTranslator(literal_tr): __init__ calls randomize_values, so the shared
\* mapping becomes the outcome k of a new shuffle.  Solver.create of solver.py
\* builds the rules only while the class has no _rules_formula.
Randomized(k, cached) ==
    /\ k \in 1 .. NumShuffles
    /\ (cached /\ rules_formula # 0) => k = literal_tr

\* sol = Solver.create(board) of solver.py: the rules formula is built once
\* per process and cached; __init__ appends the instance formula, translated
\* under the mapping the shared LiteralTranslator holds now.
SolverCreate ==
    \E p \in SessionPuzzles, k \in 1 .. NumShuffles :
        /\ Randomized(k, TRUE)
        /\ literal_tr' = k
        /\ rules_formula' = IF rules_formula = 0 THEN k ELSE rules_formula
        /\ solver' = [board |-> p, rules |-> rules_formula',
                      units |-> InstanceTranslate(ReducedSide, k, p),
                      blocked |-> {}, yielded |-> <<>>]
        /\ op' = "Solver.create"
        /\ arg' = p
        /\ ret' = Returned(p)
        /\ board' = p
        /\ UNCHANGED worker

\* sol.solve(): a model of the oracle is decoded under the mapping the shared
\* LiteralTranslator holds now; the decoded board replaces _board and is
\* returned (the variable board holds it).  Without a model the call raises.
SolverSolve ==
    /\ Live(solver)
    /\ op' = "Solver.solve"
    /\ arg' = solver.board
    /\ LET models == Models(solver.rules, solver.units) \ solver.blocked
       IN IF models = {}
          THEN /\ ret' = Raised("NoSolutionError")
               /\ UNCHANGED <<board, solver>>
          ELSE \E m \in models :
                  LET out == map_sat_to_board(literal_tr, m) IN
                  /\ ret' = out
                  /\ board' = out.val
                  /\ UNCHANGED solver
    /\ UNCHANGED <<literal_tr, rules_formula, worker>>

\* One step of "for solution in sol": enum_models() takes a model, adds the
\* clause that forbids it, and the model is decoded and yielded; without a
\* model the iteration stops.
SolverNext ==
    /\ Live(solver)
    /\ op' = "Solver.__iter__"
    /\ arg' = solver.board
    /\ LET models == Models(solver.rules, solver.units) \ solver.blocked
       IN IF models = {}
          THEN /\ ret' = Raised("StopIteration")
               /\ UNCHANGED <<board, solver>>
          ELSE \E m \in models :
                  LET out == map_sat_to_board(literal_tr, m) IN
                  /\ ret' = out
                  /\ board' = out.val
                  /\ solver' = [solver EXCEPT !.blocked = @ \cup {m},
                                              !.yielded = Append(@, out.val)]
    /\ UNCHANGED <<literal_tr, rules_formula, worker>>

\* Solver(board) of workers.py: rules and instance are translated one after
\* the other, the rules translator re-randomising the shared mapping first.
WorkerNew ==
    \E p \in SessionPuzzles, k \in 1 .. NumShuffles :
        /\ Randomized(k, FALSE)
        /\ literal_tr' = k
        /\ worker' = [board |-> p, rules |-> k,
                      units |-> InstanceTranslate(ReducedSide, k, p)]
        /\ op' = "workers.Solver"
        /\ arg' = p
        /\ ret' = Returned(p)
        /\ board' = p
        /\ UNCHANGED <<rules_formula, solver>>

\* self._board == Board.empty_board(): class Board defines no __eq__, so the
\* test is the identity of self._board and a board made for the test.
SameBoard(rows, fresh) == FALSE

\* worker.resolve(): as solve, but without a model the board is compared with
\* an empty board, and on equality the worker is initialised again and
\* resolve calls itself (the formula is the same, so the calls would nest
\* until RecursionError).
WorkerResolve ==
    /\ Live(worker)
    /\ op' = "workers.Solver.resolve"
    /\ arg' = worker.board
    /\ LET models == Models(worker.rules, worker.units)
       IN IF models # {}
          THEN /\ \E m \in models :
                      LET out == map_sat_to_board(literal_tr, m) IN
                      /\ ret' = out
                      /\ board' = out.val
               /\ UNCHANGED <<literal_tr, worker>>
          ELSE IF SameBoard(worker.board, empty_board(ReducedSide))
          THEN /\ \E k \in 1 .. NumShuffles :
                      /\ literal_tr' = k
                      /\ worker' = [worker EXCEPT !.rules = k,
                                       !.units = InstanceTranslate(ReducedSide, k, worker.board)]
               /\ ret' = Raised("RecursionError")
               /\ UNCHANGED board
          ELSE /\ ret' = Raised("NoSolutionError")
               /\ UNCHANGED <<board, literal_tr, worker>>
    /\ UNCHANGED <<rules_formula, solver>>

\* Sudoku.solve(matrix) of PySudoku: from_matrix, Solver.create, solve and
\* to_matrix inside one try; InvalidCellValueError and NoSolutionError leave
\* as InvalidMatrixError.  The solver object is dropped at the return.
SudokuSolve ==
    \E matrix \in SolveMatrices, k \in 1 .. NumShuffles :
        LET b == from_matrix(ReducedSide, matrix) IN
        /\ op' = "Sudoku.solve"
        /\ arg' = matrix
        /\ IF b.exc = "InvalidCellValueError"
           THEN /\ k = 1
                /\ ret' = Raised("InvalidMatrixError")
                /\ UNCHANGED <<board, literal_tr, rules_formula>>
           ELSE /\ Randomized(k, TRUE)
                /\ literal_tr' = k
                /\ rules_formula' = IF rules_formula = 0 THEN k ELSE rules_formula
                /\ LET models == Models(rules_formula', InstanceTranslate(ReducedSide, k, b.val))
                   IN IF models = {}
                      THEN /\ ret' = Raised("InvalidMatrixError")
                           /\ UNCHANGED board
                      ELSE \E m \in models :
                              /\ ret' = Returned(to_matrix(ReducedSide, map_sat_to_board(k, m).val))
                              /\ board' = map_sat_to_board(k, m).val
        /\ UNCHANGED <<solver, worker>>

\* _Solver.create(b) in src/sudoku: class Solver of src/sudoku/solver.py has
\* __init__, solve and __iter__ with empty bodies and no attribute create.
LegacySolverCreate(b) == Raised("AttributeError")

\* Sudoku.solve(matrix) of src/sudoku: only from_matrix is inside the try;
\* Solver.create and solve run after it.
LegacySudokuSolve ==
    \E matrix \in SolveMatrices :
        LET b == from_matrix(ReducedSide, matrix) IN
        /\ op' = "sudoku.Sudoku.solve"
        /\ arg' = matrix
        /\ ret' = IF b.exc \in {"InvalidCellValueError", "NoSolutionError"}
                  THEN Raised("InvalidMatrixError")
                  ELSE LegacySolverCreate(b.val)
        /\ UNCHANGED <<board, session>>

SessionNext ==
    \/ SolverCreate
    \/ SolverSolve
    \/ SolverNext
    \/ WorkerNew
    \/ WorkerResolve

SpecSession == SessionInit /\ [][SessionNext]_vars

\* SpecSolve: the callers of the facade, in a process where workers are made.
SolveNext ==
    \/ SudokuSolve
    \/ LegacySudokuSolve
    \/ WorkerNew

SpecSolve == SessionInit /\ [][SolveNext]_vars

\* Every entry of the matrix is a cell value.
InRange(s, matrix) ==
    \A rc \in Coords(s) :
        /\ matrix[rc[1]][rc[2]] >= VALUE_RANGE(s)[1]
        /\ matrix[rc[1]][rc[2]] <= VALUE_RANGE(s)[2]

\* C1: Sudoku.solve (either package) given a matrix with an entry off the range,
\* or a matrix in range without a valid completion, raises InvalidMatrixError:
\* no other exception leaves the call and no grid is returned.
C1_SolveInvalidMatrix ==
    (/\ op \in {"Sudoku.solve", "sudoku.Sudoku.solve"}
     /\ (~ InRange(ReducedSide, arg) \/ Completions(arg) = {}))
        => ret.exc = "InvalidMatrixError"

\* C5: iterating a solver yields valid completions of its puzzle, never one
\* twice, and when the iteration stops every completion has been yielded once
\* (one grid for a puzzle with one completion, two for the puzzle with two).
C5_OneGridPerCompletion ==
    op = "Solver.__iter__" =>
        /\ \A i \in 1 .. Len(solver.yielded) :
              /\ solver.yielded[i] \in Completions(solver.board)
              /\ \A j \in 1 .. Len(solver.yielded) :
                    solver.yielded[i] = solver.yielded[j] => i = j
        /\ ret.exc = "StopIteration" =>
              /\ Elems(solver.yielded) = Completions(solver.board)
              /\ Len(solver.yielded) = Cardinality(Completions(solver.board))

\* C9: solve and resolve on a puzzle without a valid completion raise
\* NoSolutionError, and resolve does not initialise the worker again.
C9_UnsatRaisesNoSolution ==
    /\ (op \in {"Solver.solve", "workers.Solver.resolve"} /\ Completions(arg) = {})
          => ret.exc = "NoSolutionError"
    /\ ret # <<>> => ret.exc # "RecursionError"

(***************************************************************************)
(* SpecGenerate: Sudoku.generate(difficulty) of PySudoku.  A str is the    *)
(* sequence of its characters.                                             *)
(***************************************************************************)
\* The cased characters the names are written with, lower case and upper case.
Lowers == <<"a", "d", "e", "h", "i", "l", "m", "n", "o", "r", "s", "t", "u", "x", "y">>

Uppers == <<"A", "D", "E", "H", "I", "L", "M", "N", "O", "R", "S", "T", "U", "X", "Y">>

\* str.islower() or str.isupper() of one character.
IsCased(c) == c \in Elems(Lowers) \cup Elems(Uppers)

ToUpper(c) ==
    IF c \in Elems(Lowers) THEN Uppers[CHOOSE i \in 1 .. Len(Lowers) : Lowers[i] = c] ELSE c

ToLower(c) ==
    IF c \in Elems(Uppers) THEN Lowers[CHOOSE i \in 1 .. Len(Uppers) : Uppers[i] = c] ELSE c

\* A plausible slip: capitalize the first letter of each word, keep the rest.
title_KeepRest(str) ==
    [i \in 1 .. Len(str) |->
        IF i > 1 /\ IsCased(str[i - 1]) THEN str[i] ELSE ToUpper(str[i])]

\* str.title(): a character after a cased character is lowered, any other is
\* put in title case.
title(str) ==
    [i \in 1 .. Len(str) |->
        IF i > 1 /\ IsCased(str[i - 1]) THEN ToLower(str[i]) ELSE ToUpper(str[i])]

\* class Difficulty(IntEnum): the members by name.
Difficulty ==
    {[name |-> <<"E", "a", "s", "y">>, value |-> 4],
     [name |-> <<"M", "e", "d", "i", "u", "m">>, value |-> 3],
     [name |-> <<"H", "a", "r", "d">>, value |-> 2],
     [name |-> <<"E", "x", "t", "r", "e", "m", "e">>, value |-> 1]}

\* Generator._MIN_NUMBER_OF_VALUES
_MIN_NUMBER_OF_VALUES == 17

\* Difficulty[key]: the member, or KeyError.
DifficultyLookup(key) ==
    IF \E d \in Difficulty : d.name = key
    THEN Returned(CHOOSE d \in Difficulty : d.name = key)
    ELSE Raised("KeyError")

\* The name is one of the four up to the case of its letters.
MatchesIgnoringCase(str) ==
    \E d \in Difficulty :
        /\ Len(str) = Len(d.name)
        /\ \A i \in 1 .. Len(str) : ToLower(str[i]) = ToLower(d.name[i])

\* The names given: the four names in every letter case; each of them with a
\* character added in front, inside or behind, or without its last letter;
\* the empty name; another word.
GenerateNames ==
    LET words == {d.name : d \in Difficulty}
        cases(w) == {[i \in 1 .. Len(w) |-> IF i \in up THEN ToUpper(w[i]) ELSE ToLower(w[i])] :
                        up \in SUBSET (1 .. Len(w))}
        extra == {" ", "1", ".", "y"}
    IN UNION {cases(w) : w \in words}
       \cup {<<c>> \o w : c \in extra, w \in words}
       \cup {w \o <<c>> : c \in extra, w \in words}
       \cup {<<w[1]>> \o <<c>> \o Tail(w) : c \in extra, w \in words}
       \cup {SubSeq(w, 1, Len(w) - 1) : w \in words}
       \cup {<<>>, <<"n", "o", "r", "m", "a", "l">>, <<"e", "a", "s", "y", " ", "h", "a", "r", "d">>}

\* A plausible slip: the square of the cell is not looked at.
is_cell_correct_NoSquare(s, rows, row, col, value) ==
    /\ ~ \E c \in PyRange(0, N_COLS(s)) : rows[row][c] = value
    /\ ~ \E r \in PyRange(0, N_ROWS(s)) : rows[r][col] = value

\* BoardTester.is_cell_correct(row, col, value): the value is in no cell of
\* the row, of the column and of the square of (row, col).
is_cell_correct(s, rows, row, col, value) ==
    LET square == coord_to_square(s, row, col)[1]
    IN /\ ~ \E c \in PyRange(0, N_COLS(s)) : rows[row][c] = value
       /\ ~ \E r \in PyRange(0, N_ROWS(s)) : rows[r][col] = value
       /\ ~ \E i \in PyRange(0, s * s) :
              rows[square_to_coord(s, square, i)[1]][square_to_coord(s, square, i)[2]] = value

\* Grids offered as the outcome of the backtracking: the base grid, its
\* transpose, the base grid with every digit moved on by one, and a grid
\* whose squares repeat digits.
FullBoardCandidates(s) ==
    {BaseGrid(s),
     [r \in PyRange(0, N_ROWS(s)) |-> [c \in PyRange(0, N_COLS(s)) |-> BaseGrid(s)[c][r]]],
     [r \in PyRange(0, N_ROWS(s)) |->
         [c \in PyRange(0, N_COLS(s)) |-> (BaseGrid(s)[r][c] % N_COLS(s)) + 1]],
     [r \in PyRange(0, N_ROWS(s)) |-> [c \in PyRange(0, N_COLS(s)) |-> ((r + c) % N_COLS(s)) + 1]]}

\* Generator._generate_full_board: the boards it can leave in self._board.
\* The cells are filled in row-major order, each with a shuffled value that
\* is_cell_correct accepts on the board so far, backtracking on a dead end;
\* a grid is an outcome iff each of its cells passes the test against the
\* cells before it.
generate_full_board(s) ==
    {g \in FullBoardCandidates(s) :
        \A cell \in PyRange(0, N_ROWS(s) * N_COLS(s)) :
            LET row == cell \div N_COLS(s)
                col == cell % N_ROWS(s)
                so_far == [r \in PyRange(0, N_ROWS(s)) |->
                             [c \in PyRange(0, N_COLS(s)) |->
                                 IF (r * N_COLS(s)) + c < cell THEN g[r][c] ELSE 0]]
            IN is_cell_correct(s, so_far, row, col, g[row][col])}

\* Worker.create(*positional): a classmethod declared as create(type, board),
\* so the class is bound to type and one positional argument is left for
\* board.  With more the call raises TypeError; otherwise type is the class,
\* no branch matches and None is returned.
WorkerCreate(positional) ==
    IF Len(positional) > 1 THEN Raised("TypeError") ELSE Returned("None")

\* Generator._wipe_cells: Worker.create(WorkerType.Minimizer, self._board) and
\* resolve() on what it returns.
wipe_cells(rows) ==
    LET minimizer == WorkerCreate(<<"WorkerType.Minimizer", rows>>)
    IN IF minimizer.exc # "none" THEN minimizer ELSE Raised("AttributeError")

GenerateInit ==
    /\ op = "none"
    /\ \E str \in GenerateNames, s \in {ReducedSide, N_CELLS_PER_SQUARE_SIDE} :
          arg = [difficulty |-> str, side |-> s]
    /\ ret = <<>>
    /\ board = <<>>
    /\ NoSession

\* Sudoku.generate(difficulty): the member lookup, then Generator.generate():
\* empty board, full board, _wipe_cells, _adapt_to_difficulty.  ret.steps
\* lists the steps of the generator that were entered.
SudokuGenerate ==
    /\ op = "none"
    /\ op' = "Sudoku.generate"
    /\ LET difficulty == DifficultyLookup(title(arg.difficulty))
       IN IF difficulty.exc = "KeyError"
          THEN /\ ret' = [exc |-> "InvalidDifficultyError", val |-> <<>>, steps |-> <<>>]
               /\ UNCHANGED board
          ELSE \E full \in generate_full_board(arg.side) :
                  LET minimal_board == wipe_cells(full) IN
                  /\ board' = full
                  /\ ret' = [exc |-> minimal_board.exc, val |-> <<>>,
                             steps |-> <<"empty_board", "_generate_full_board",
                                         "_wipe_cells">>]
    /\ UNCHANGED <<arg, session>>

GenerateNext == SudokuGenerate

SpecGenerate == GenerateInit /\ [][GenerateNext]_vars

\* C2: generate raises InvalidDifficultyError exactly for the names that are
\* none of Easy, Medium, Hard, Extreme up to letter case, and then no step
\* of the generator was entered and no board exists; for a name that matches
\* in some letter case the generator is entered.
C2_InvalidDifficulty ==
    op = "Sudoku.generate" =>
        /\ (ret.exc = "InvalidDifficultyError") <=> ~ MatchesIgnoringCase(arg.difficulty)
        /\ ret.exc = "InvalidDifficultyError" => (ret.steps = <<>> /\ board = <<>>)
        /\ MatchesIgnoringCase(arg.difficulty) => ret.steps # <<>>

\* "Easy" followed by a blank was refused before the generator was entered.
C2_Witness ==
    /\ op = "Sudoku.generate"
    /\ arg.difficulty = <<"E", "a", "s", "y", " ">>
    /\ ret.exc = "InvalidDifficultyError"
    /\ ret.steps = <<>>
    /\ board = <<>>

\* The multiplier of an accepted name.
Multiplier(str) == DifficultyLookup(title(str)).val.value

\* C3: for an accepted name generate returns a puzzle of the 9 x 9 board with
\* exactly 17 x multiplier filled cells (68, 51, 34, 17).
C3_ClueCount ==
    (/\ op = "Sudoku.generate"
     /\ MatchesIgnoringCase(arg.difficulty)
     /\ arg.side = N_CELLS_PER_SQUARE_SIDE)
        => /\ ret.exc = "none"
           /\ Len(get_cells(arg.side, ret.val, TRUE))
                 = _MIN_NUMBER_OF_VALUES * Multiplier(arg.difficulty)

\* C4: for an accepted name generate returns a puzzle whose clues are those of
\* the full grid of the backtracking step and whose only valid completion is
\* that grid (the completions are counted on the reduced board).
C4_UniqueCompletion ==
    (op = "Sudoku.generate" /\ MatchesIgnoringCase(arg.difficulty))
        => /\ ret.exc = "none"
           /\ Extends(arg.side, board, ret.val)
           /\ arg.side = ReducedSide => Completions(ret.val) = {board}

(***************************************************************************)
(* The Board object (board.py, Board.__init__ and its accessors).  The     *)
(* cells are objects: a cell is named by its creation number, the lists    *)
(* _rows, _cols and _squares hold cell names, and a cell's value lives in  *)
(* one place, value[name].  In this section `board` is the record          *)
(* [value, _rows, _cols, _squares] and `ret` is what an accessor handed to *)
(* the caller: the lists, and whether the inner lists are the caller's own.*)
(***************************************************************************)
\* The cell created at step (i, j) of the two loops of Board.__init__.
CellId(s, i, j) == (i * N_COLS(s)) + j + 1

\* cell.row, cell.col of a cell, fixed at creation.
CellCoord(s, id) == RowMajor(s)[id]

\* A plausible slip: the band of rows is not scaled by the boxes per band.
square_index_NoStride(s, i, j) == (j \div s) + (i \div s)

\* Board.__init__: the index of the list of _squares a cell is appended to.
square_index(s, i, j) == (j \div s) + ((i \div s) * s)

\* src/sudoku/solver.py, Board.__init__: self._squares[(j // 3) * ((i // 3) + 1)]
LegacySquareIndex(s, i, j) == (j \div s) * ((i \div s) + 1)

\* Board.__init__: how many lists _squares holds when cell (i, j) is appended
\* (one is appended whenever i and j are both multiples of the side).
SquaresAt(s, i, j) ==
    Cardinality({rc \in Coords(s) :
        /\ rc[1] % s = 0 /\ rc[2] % s = 0
        /\ (rc[1] < i \/ (rc[1] = i /\ rc[2] <= j))})

\* Board.__init__: self._rows
BoardRows(s) ==
    [i \in 1 .. N_ROWS(s) |-> [j \in 1 .. N_COLS(s) |-> CellId(s, i - 1, j - 1)]]

\* Board.__init__: self._cols (column j receives its cells in the order of i)
BoardCols(s) ==
    [j \in 1 .. N_COLS(s) |-> [i \in 1 .. N_ROWS(s) |-> CellId(s, i - 1, j - 1)]]

\* Board.__init__ of either package: self._squares; the cells reach a list in
\* creation order.  "IndexError" when an index names no list yet.
SquaresBy(s, package) ==
    LET Index(i, j) == IF package = "sudoku" THEN LegacySquareIndex(s, i, j)
                       ELSE square_index(s, i, j)
        at(id) == Index(CellCoord(s, id)[1], CellCoord(s, id)[2])
        ids == [k \in 1 .. (N_ROWS(s) * N_COLS(s)) |-> k]
    IN IF \E rc \in Coords(s) : Index(rc[1], rc[2]) >= SquaresAt(s, rc[1], rc[2])
       THEN "IndexError"
       ELSE [q \in 1 .. SquaresAt(s, N_ROWS(s) - 1, N_COLS(s) - 1) |->
                SelectSeq(ids, LAMBDA id : at(id) = q - 1)]

BoardSquares(s) == SquaresBy(s, "PySudoku")

\* Board(): the object after __init__, every cell 0.
NewBoard(s) ==
    [value |-> [id \in 1 .. (N_ROWS(s) * N_COLS(s)) |-> 0],
     _rows |-> BoardRows(s),
     _cols |-> BoardCols(s),
     _squares |-> BoardSquares(s)]

\* A plausible slip: result.append(item), the inner lists are the board's own.
copy_matrix_OuterOnly(matrix) == [lists |-> matrix, own |-> FALSE]

\* Board._copy_matrix: a new outer list of new inner lists, the same cells.
copy_matrix(matrix) ==
    [lists |-> [a \in 1 .. Len(matrix) |-> [b \in 1 .. Len(matrix[a]) |-> matrix[a][b]]],
     own |-> TRUE]

\* The properties rows, cols and squares.
BoardView(b, view) ==
    CASE view = "rows" -> copy_matrix(b._rows)
      [] view = "cols" -> copy_matrix(b._cols)
      [] view = "squares" -> copy_matrix(b._squares)

\* Board.get_cells(used) on the object: one new list, read off _rows.
BoardGetCells(s, b, used) ==
    LET ids == [k \in 1 .. (N_ROWS(s) * N_COLS(s)) |->
                   b._rows[((k - 1) \div N_COLS(s)) + 1][((k - 1) % N_COLS(s)) + 1]]
        test(id) == IF used THEN b.value[id] # 0 ELSE b.value[id] = 0
    IN SelectSeq(ids, test)

\* Board.to_matrix(board): the values read through board.rows.
BoardToMatrix(s, b) ==
    LET view == BoardView(b, "rows").lists
    IN [i \in PyRange(0, N_ROWS(s)) |->
          [j \in PyRange(0, N_COLS(s)) |-> b.value[view[i + 1][j + 1]]]]

\* The cells the writes go to, the values written, the lists a caller edits.
WritePositions == {<<4, 7>>, <<8, 0>>}

WriteValues == {0, 5, 7}

EditedLists == {1, 9}

BoardInit ==
    /\ op = "Board"
    /\ arg = <<>>
    /\ ret = [view |-> "none", lists |-> <<>>, own |-> TRUE]
    /\ board = NewBoard(N_CELLS_PER_SQUARE_SIDE)
    /\ NoSession

\* board.rows / board.cols / board.squares
BoardAccessor ==
    \E view \in {"rows", "cols", "squares"} :
        /\ op' = "Board." \o view
        /\ arg' = <<>>
        /\ ret' = [view |-> view] @@ BoardView(board, view)
        /\ UNCHANGED <<board, session>>

\* board.get_cells(used)
BoardGetCellsCall ==
    \E used \in BOOLEAN :
        /\ op' = "Board.get_cells"
        /\ arg' = used
        /\ ret' = [view |-> "get_cells",
                   lists |-> <<BoardGetCells(N_CELLS_PER_SQUARE_SIDE, board, used)>>,
                   own |-> TRUE]
        /\ UNCHANGED <<board, session>>

\* cell.value = new_val on a cell taken from the lists the caller holds.
CellWrite ==
    \E a \in 1 .. Len(ret.lists) : \E b \in 1 .. Len(ret.lists[a]) :
      \E new_val \in WriteValues :
        /\ CellCoord(N_CELLS_PER_SQUARE_SIDE, ret.lists[a][b]) \in WritePositions
        /\ ValueAccepted(N_CELLS_PER_SQUARE_SIDE, new_val)
        /\ op' = "Cell.value"
        /\ arg' = [cell |-> ret.lists[a][b], value |-> new_val]
        /\ board' = [board EXCEPT !.value[ret.lists[a][b]] = new_val]
        /\ UNCHANGED <<ret, session>>

\* The caller edits a list it was handed: lst[0], lst[1] = lst[1], lst[0].
\* The edit lands in the board's list too when the list is not a copy.
ListSwap ==
    \E a \in EditedLists :
        LET swap(lst) == [lst EXCEPT ![1] = lst[2], ![2] = lst[1]]
        IN /\ a <= Len(ret.lists)
           /\ Len(ret.lists[a]) >= 2
           /\ op' = "list.swap"
           /\ arg' = a
           /\ ret' = [ret EXCEPT !.lists[a] = swap(@)]
           /\ board' = IF ret.own THEN board
                       ELSE CASE ret.view = "rows" -> [board EXCEPT !._rows[a] = swap(@)]
                              [] ret.view = "cols" -> [board EXCEPT !._cols[a] = swap(@)]
                              [] ret.view = "squares" -> [board EXCEPT !._squares[a] = swap(@)]
           /\ UNCHANGED session

BoardNext ==
    \/ BoardAccessor
    \/ BoardGetCellsCall
    \/ CellWrite
    \/ ListSwap

SpecBoard == BoardInit /\ [][BoardNext]_vars

\* The value read for (row, col) through each view of the board.
ThroughRows(b, row, col) == b.value[BoardView(b, "rows").lists[row + 1][col + 1]]

ThroughCols(b, row, col) == b.value[BoardView(b, "cols").lists[col + 1][row + 1]]

ThroughSquares(s, b, row, col) ==
    b.value[BoardView(b, "squares").lists[coord_to_square(s, row, col)[1] + 1]
                                         [coord_to_square(s, row, col)[2] + 1]]

\* C11: whatever was written through cells of rows, cols, squares or get_cells
\* and whatever the caller did to the lists it was handed, every position
\* reads the same value through rows[r][c], cols[c][r], its box and to_matrix,
\* a written value is the one read back at the cell's position, and the
\* board's own lists are the ones __init__ built.
C11_OneValuePerCell ==
    /\ \A rc \in Coords(N_CELLS_PER_SQUARE_SIDE) :
          /\ ThroughRows(board, rc[1], rc[2]) = ThroughCols(board, rc[1], rc[2])
          /\ ThroughRows(board, rc[1], rc[2])
                = ThroughSquares(N_CELLS_PER_SQUARE_SIDE, board, rc[1], rc[2])
          /\ ThroughRows(board, rc[1], rc[2])
                = BoardToMatrix(N_CELLS_PER_SQUARE_SIDE, board)[rc[1]][rc[2]]
    /\ op = "Cell.value" =>
          \A rc \in Coords(N_CELLS_PER_SQUARE_SIDE) :
              rc = CellCoord(N_CELLS_PER_SQUARE_SIDE, arg.cell)
                  => ThroughCols(board, rc[1], rc[2]) = arg.value
    /\ board._rows = BoardRows(N_CELLS_PER_SQUARE_SIDE)
    /\ board._cols = BoardCols(N_CELLS_PER_SQUARE_SIDE)
    /\ board._squares = BoardSquares(N_CELLS_PER_SQUARE_SIDE)

\* A write through a cell of the box view, after the caller reordered the list
\* it was handed, is read back through the rows.
C11_Witness ==
    /\ op = "Cell.value"
    /\ ret.view = "squares"
    /\ ret.lists[9][1] # board._squares[9][1]
    /\ arg.value = 7
    /\ ThroughRows(board, 8, 0) = 5
    /\ ThroughRows(board, 4, 7) = 7

\* The positions of box `square`: one block of side s, boxes numbered row-major
\* from the top-left.
BlockOf(s, square) ==
    PyRange((square \div s) * s, ((square \div s) * s) + s)
        \X PyRange((square % s) * s, ((square % s) * s) + s)

\* C12: the box view of a Board agrees with square_to_coord: squares[s][k] is
\* the cell at square_to_coord(s, k); there are 9 boxes of 9 cells, box s is
\* exactly the s-th 3 x 3 block in row-major numbering, and every cell is in
\* exactly one box.
C12_BoxesMatchTransform ==
    LET side == N_CELLS_PER_SQUARE_SIDE
        squares == BoardView(board, "squares").lists
    IN /\ Len(squares) = N_SQUARES(side)
       /\ \A square \in PyRange(0, N_SQUARES(side)) :
             /\ Len(squares[square + 1]) = side * side
             /\ \A cell \in PyRange(0, side * side) :
                   CellCoord(side, squares[square + 1][cell + 1])
                       = square_to_coord(side, square, cell)
             /\ {CellCoord(side, id) : id \in Elems(squares[square + 1])}
                   = BlockOf(side, square)
       /\ \A id \in 1 .. (N_ROWS(side) * N_COLS(side)) :
             Cardinality({square \in 1 .. Len(squares) : id \in Elems(squares[square])}) = 1
       /\ op = "Board.squares" => ret.lists = squares

\* The caller holds the box view; position 7 of box 5 is the cell (5, 7), which
\* is cell 8 of row 5.
C12_Witness ==
    /\ op = "Board.squares"
    /\ CellCoord(N_CELLS_PER_SQUARE_SIDE, ret.lists[6][8]) = <<5, 7>>
    /\ ret.lists[6][8] = board._rows[6][8]
    /\ Len(ret.lists) = 9

(***************************************************************************)
(* The coordinate transforms of the two packages.  A Python value is held  *)
(* as the tuple of its components, so that the int the older package       *)
(* returns (one component) can be compared with a pair.                    *)
(***************************************************************************)
\* src/sudoku/board.py, Board.coord_to_square: the square number alone.
LegacyCoordToSquare(s, row, col) == ((row \div s) * s) + (col \div s)

\* f(*value) for a function of two parameters: a pair unpacks, an int does not.
Unpacks(value) == Len(value) = 2

\* square_to_coord(*coord_to_square(row, col)) in either package.
CoordRoundTrip(package, s, row, col) ==
    LET there == IF package = "PySudoku" THEN coord_to_square(s, row, col)
                 ELSE <<LegacyCoordToSquare(s, row, col)>>
    IN IF Unpacks(there) THEN Returned(square_to_coord(s, there[1], there[2]))
       ELSE Raised("TypeError")

\* coord_to_square(*square_to_coord(square, cell)) in either package.
SquareRoundTrip(package, s, square, cell) ==
    LET there == square_to_coord(s, square, cell)
    IN IF package = "PySudoku" THEN Returned(coord_to_square(s, there[1], there[2]))
       ELSE Returned(<<LegacyCoordToSquare(s, there[1], there[2])>>)

TransformInit ==
    /\ op = "input"
    /\ arg \in [package : {"PySudoku", "sudoku"},
                first : PyRange(0, N_ROWS(N_CELLS_PER_SQUARE_SIDE)),
                second : PyRange(0, N_COLS(N_CELLS_PER_SQUARE_SIDE))]
    /\ ret = <<>>
    /\ board = <<>>
    /\ NoSession

\* The caller converts (row, col) = (first, second) to a box and back.
FromCoordAndBack ==
    /\ op = "input"
    /\ op' = "square_to_coord(*coord_to_square)"
    /\ ret' = CoordRoundTrip(arg.package, N_CELLS_PER_SQUARE_SIDE, arg.first, arg.second)
    /\ UNCHANGED <<arg, board, session>>

\* The caller converts (square, cell) = (first, second) to a position and back.
FromSquareAndBack ==
    /\ op = "input"
    /\ op' = "coord_to_square(*square_to_coord)"
    /\ ret' = SquareRoundTrip(arg.package, N_CELLS_PER_SQUARE_SIDE, arg.first, arg.second)
    /\ UNCHANGED <<arg, board, session>>

TransformNext ==
    \/ FromCoordAndBack
    \/ FromSquareAndBack

SpecTransform == TransformInit /\ [][TransformNext]_vars

\* C13: in both packages each round trip through the other transform returns
\* the pair it started from, for all 81 positions and all 81 (box, cell) pairs.
C13_TransformsInverse ==
    op # "input" => (ret.exc = "none" /\ ret.val = <<arg.first, arg.second>>)

(***************************************************************************)
(* The rules formula of src/sudoku on the 9 x 9 board.                     *)
(***************************************************************************)
\* self.result of src/sudoku's RulesTranslator after the four families.
LegacyRules == rules_translate(N_CELLS_PER_SQUARE_SIDE, 0) \o <<>>

\* src/sudoku, RulesTranslator.translate(board): the board is stored and only
\* its class constants are read.
LegacyRulesTranslate(rows) == LegacyRules

\* The boards handed to translate: the empty one and those with one clue on
\* the diagonal.
LegacyRulesBoards ==
    {empty_board(N_CELLS_PER_SQUARE_SIDE)}
    \cup {[empty_board(N_CELLS_PER_SQUARE_SIDE) EXCEPT ![d][d] = v] :
            d \in PyRange(0, N_ROWS(N_CELLS_PER_SQUARE_SIDE)),
            v \in 1 .. VALUE_RANGE(N_CELLS_PER_SQUARE_SIDE)[2]}

LegacyRulesInit ==
    /\ op = "input"
    /\ arg = <<>>
    /\ ret = <<>>
    /\ board \in LegacyRulesBoards
    /\ NoSession

LegacyTranslate ==
    /\ op = "input"
    /\ op' = "sudoku.RulesTranslator.translate"
    /\ ret' = LegacyRulesTranslate(board)
    /\ UNCHANGED <<arg, board, session>>

LegacyRulesNext == LegacyTranslate

SpecLegacyRules == LegacyRulesInit /\ [][LegacyRulesNext]_vars

\* The clauses of a formula that are made of positive (negative) literals only.
PositiveClauses(formula) ==
    {i \in 1 .. Len(formula) : \A x \in 1 .. Len(formula[i]) : formula[i][x] > 0}

NegativeClauses(formula) ==
    {i \in 1 .. Len(formula) : \A x \in 1 .. Len(formula[i]) : formula[i][x] < 0}

\* C14: the formula src/sudoku translates has 4 x 81 = 324 clauses of 9
\* different positive literals, each followed by the 36 clauses {-lit_i, -lit_j},
\* i < j, over its literals: 11664 two-literal negative clauses, nothing else,
\* and the formula is the same for every board.
C14_LegacyClauseCounts ==
    op = "sudoku.RulesTranslator.translate" =>
        LET side == N_CELLS_PER_SQUARE_SIDE
            n == VALUE_RANGE(side)[2]
            per == 1 + ((n * (n - 1)) \div 2)
            pos == PositiveClauses(ret)
            neg == NegativeClauses(ret)
        IN /\ Cardinality(pos) = 4 * 81
           /\ Cardinality(neg) = 4 * 81 * 36
           /\ Len(ret) = Cardinality(pos) + Cardinality(neg)
           /\ pos = {((g - 1) * per) + 1 : g \in 1 .. NumGroups(side)}
           /\ \A i \in pos :
                 /\ Cardinality(Elems(ret[i])) = n
                 /\ {Elems(ret[i + q]) : q \in 1 .. (per - 1)}
                       = {{- ret[i][a], - ret[i][b]} : a, b \in 1 .. n} \ {{- ret[i][a]} : a \in 1 .. n}
                 /\ Cardinality({Elems(ret[i + q]) : q \in 1 .. (per - 1)}) = 36
           /\ ret = LegacyRulesTranslate(empty_board(side))

\* translate was called on a board with the clue 7 at (4, 4); the second
\* clause is the first pairwise clause of cell (0, 0).
C14_Witness ==
    /\ op = "sudoku.RulesTranslator.translate"
    /\ board[4][4] = 7
    /\ Len(ret) = 11988
    /\ ret[2] = <<- coord_to_literal(N_CELLS_PER_SQUARE_SIDE, 0, 0, 0),
                  - coord_to_literal(N_CELLS_PER_SQUARE_SIDE, 0, 0, 1)>>

(***************************************************************************)
(* Generator._generate_full_board, call by call, on the reduced board.  In *)
(* this section `arg` is the stack of the active calls: the cell a call    *)
(* works on and the part of its shuffled values the loop has yet to visit. *)
(***************************************************************************)
\* The outcomes of shuffle(values) that are followed.
NumValueOrders == 2

\* values after shuffle(values) with outcome k, values being 0 .. n - 1:
\* 1 leaves the order, 2 reverses it, k >= 3 rotates it by k - 2.
ValueOrder(s, k) ==
    LET n == VALUE_RANGE(s)[2] - VALUE_RANGE(s)[1]
    IN [i \in 1 .. n |->
          IF k = 1 THEN i - 1
          ELSE IF k = 2 THEN n - i
          ELSE ((i - 1) + (k - 2)) % n]

\* The cells with value 0, as numbers row * N_COLS + col.
EmptyCells(s, rows) ==
    {cell \in PyRange(0, N_ROWS(s) * N_COLS(s)) : rows[cell \div N_COLS(s)][cell % N_ROWS(s)] = 0}

\* A call of _generate_full_board up to its inner loop: the outer loop stops
\* at the first empty cell and shuffles; on a full board it runs to the last
\* cell and no value is tried.
FullBoardCall(s, rows, k) ==
    IF EmptyCells(s, rows) = {}
    THEN [cell |-> (N_ROWS(s) * N_COLS(s)) - 1, values |-> <<>>]
    ELSE [cell |-> CHOOSE cell \in EmptyCells(s, rows) :
                       \A other \in EmptyCells(s, rows) : cell <= other,
          values |-> ValueOrder(s, k)]

\* The positions of the values of a call that is_cell_correct accepts.
CorrectAt(s, rows, frame) ==
    {i \in 1 .. Len(frame.values) :
        is_cell_correct(s, rows, frame.cell \div N_COLS(s), frame.cell % N_ROWS(s),
                        frame.values[i] + 1)}

FullBoardInit ==
    /\ op = "call"
    /\ board = empty_board(ReducedSide)
    /\ \E k \in 1 .. NumValueOrders : arg = <<FullBoardCall(ReducedSide, board, k)>>
    /\ ret = <<>>
    /\ NoSession

\* The inner loop of the innermost call reaches a value is_cell_correct
\* accepts: the value is stored; on a full board every active call returns
\* True, otherwise the function calls itself.
FullBoardPlace ==
    /\ arg # <<>>
    /\ LET s == ReducedSide
           frame == arg[Len(arg)]
           row == frame.cell \div N_COLS(s)
           col == frame.cell % N_ROWS(s)
           correct == CorrectAt(s, board, frame)
       IN /\ correct # {}
          /\ LET i == CHOOSE i \in correct : \A other \in correct : i <= other
                 placed == SetValue(s, board, row, col, frame.values[i] + 1).val
             IN /\ board' = placed
                /\ IF Len(get_cells(s, placed, FALSE)) = 0
                   THEN /\ op' = "return"
                        /\ arg' = <<>>
                        /\ ret' = Returned(TRUE)
                   ELSE /\ op' = "call"
                        /\ \E k \in 1 .. NumValueOrders :
                              arg' = [arg EXCEPT ![Len(arg)].values =
                                          SubSeq(frame.values, i + 1, Len(frame.values))]
                                     \o <<FullBoardCall(s, placed, k)>>
                        /\ ret' = ret
    /\ UNCHANGED session

\* A call that gives up without setting its cell back to 0.
FullBoardBacktrack_NoReset ==
    /\ arg # <<>>
    /\ CorrectAt(ReducedSide, board, arg[Len(arg)]) = {}
    /\ board' = board
    /\ arg' = SubSeq(arg, 1, Len(arg) - 1)
    /\ IF Len(arg) = 1
       THEN op' = "return" /\ ret' = Returned(FALSE)
       ELSE op' = "backtrack" /\ ret' = ret
    /\ UNCHANGED session

\* The inner loop of the innermost call ends with no value accepted: the cell
\* is set back to 0 and the call returns False to the loop of its caller.
FullBoardBacktrack ==
    /\ arg # <<>>
    /\ LET s == ReducedSide
           frame == arg[Len(arg)]
       IN /\ CorrectAt(s, board, frame) = {}
          /\ board' = SetValue(s, board, frame.cell \div N_COLS(s), frame.cell % N_ROWS(s), 0).val
          /\ arg' = SubSeq(arg, 1, Len(arg) - 1)
          /\ IF Len(arg) = 1
             THEN op' = "return" /\ ret' = Returned(FALSE)
             ELSE op' = "backtrack" /\ ret' = ret
    /\ UNCHANGED session

FullBoardNext ==
    \/ FullBoardPlace
    \/ FullBoardBacktrack

SpecFullBoard == FullBoardInit /\ [][FullBoardNext]_vars

\* What is left to do: for each depth of the call stack the number of values
\* the call's loop has yet to visit (0 below the stack), then the stack's depth.
FullBoardLeft(stack) ==
    LET depth == N_ROWS(ReducedSide) * N_COLS(ReducedSide)
    IN [d \in 1 .. (depth + 1) |->
          IF d <= Len(stack) THEN Len(stack[d].values)
          ELSE IF d = depth + 1 THEN Len(stack)
          ELSE 0]

\* The lexicographic order on tuples of naturals of one length.
LexLess(a, b) ==
    \E i \in 1 .. Len(a) : a[i] < b[i] /\ \A j \in 1 .. (i - 1) : a[j] = b[j]

\* The guards of the two steps: a call is active and its loop either reaches
\* an accepted value or runs out.
FullBoardCanStep ==
    /\ arg # <<>>
    /\ \/ CorrectAt(ReducedSide, board, arg[Len(arg)]) # {}
       \/ CorrectAt(ReducedSide, board, arg[Len(arg)]) = {}

\* C15: _generate_full_board started on the empty grid terminates for every
\* outcome of the shuffles, returning True on a grid with no empty cell whose
\* rows, columns and boxes hold every digit once: until it has returned a step
\* is possible, every step takes what is left to do down in a well-founded
\* order, and what it returns is True on a full valid grid.
C15_FullBoardTerminates ==
    /\ [](op # "return" => FullBoardCanStep)
    /\ [][LexLess(FullBoardLeft(arg'), FullBoardLeft(arg))]_vars
    /\ [](op = "return" =>
            /\ ret = Returned(TRUE)
            /\ arg = <<>>
            /\ get_cells(ReducedSide, board, FALSE) = <<>>
            /\ IsSolved(ReducedSide, board))

\* The call returned True on a grid that is not the one the ascending order
\* reaches: its first cell holds the last digit.
C15_Witness ==
    /\ op = "return"
    /\ ret = Returned(TRUE)
    /\ board[0][0] = VALUE_RANGE(ReducedSide)[2]
    /\ IsSolved(ReducedSide, board)

\* The value of the cell with number cell = row * N_COLS + col.
FullBoardValue(rows, cell) ==
    rows[cell \div N_COLS(ReducedSide)][cell % N_ROWS(ReducedSide)]

\* No value other than 0 is twice in a row, a column or a box.
NoRepeatedValue(s, rows) ==
    \A a \in Coords(s), b \in Coords(s) :
        (/\ a # b
         /\ rows[a[1]][a[2]] # 0
         /\ rows[a[1]][a[2]] = rows[b[1]][b[2]])
            => /\ a[1] # b[1]
               /\ a[2] # b[2]
               /\ coord_to_square(s, a[1], a[2])[1] # coord_to_square(s, b[1], b[2])[1]

\* The filled cells are the first ones of the row-major order.
FilledPrefix(s, rows) ==
    \A cell \in PyRange(0, N_ROWS(s) * N_COLS(s)) :
        FullBoardValue(rows, cell) # 0 =>
            \A before \in PyRange(0, cell) : FullBoardValue(rows, before) # 0

\* C26: while _generate_full_board runs from the empty grid no two filled
\* cells of a row, column or box hold one value and the filled cells are a
\* prefix of the row-major order; when a recursive call returns False its
\* cell is 0 again, the cells before it are as they were, and its caller is
\* the innermost call again, with the values its loop has not visited yet.
C26_ValidPrefix ==
    /\ [](NoRepeatedValue(ReducedSide, board) /\ FilledPrefix(ReducedSide, board))
    /\ [][op' \in {"backtrack"} =>
            LET gave_up == arg[Len(arg)].cell
            IN /\ FullBoardValue(board', gave_up) = 0
               /\ \A before \in PyRange(0, gave_up) :
                     /\ FullBoardValue(board', before) = FullBoardValue(board, before)
                     /\ FullBoardValue(board', before) # 0
               /\ arg' = SubSeq(arg, 1, Len(arg) - 1)
               /\ arg'[Len(arg')].cell = gave_up - 1]_vars

\* A call on a cell of the third row returned False: its cell is empty and
\* its caller has values left to try.
C26_Witness ==
    /\ op = "backtrack"
    /\ Len(arg) >= 2 * N_COLS(ReducedSide)
    /\ arg[Len(arg)].values # <<>>
    /\ FullBoardValue(board, Len(arg) - 1) # 0
    /\ FullBoardValue(board, Len(arg)) = 0

\* A call gave up on a cell of the second row and handed control back.
C15_Backtracked ==
    /\ op = "backtrack"
    /\ Len(arg) >= N_COLS(ReducedSide)

(***************************************************************************)
(* The Board of src/sudoku/solver.py: the same lists, with 9 and 3 written *)
(* out and another index into _squares.                                    *)
(***************************************************************************)
\* src/sudoku/solver.py, Board(): the object after __init__.
LegacyNewBoard(s) ==
    [value |-> [id \in 1 .. (N_ROWS(s) * N_COLS(s)) |-> 0],
     _rows |-> BoardRows(s),
     _cols |-> BoardCols(s),
     _squares |-> SquaresBy(s, "sudoku")]

LegacyBoardInit ==
    /\ op = "Board"
    /\ arg = <<>>
    /\ ret = [view |-> "none", lists |-> <<>>, own |-> TRUE]
    /\ board = LegacyNewBoard(N_CELLS_PER_SQUARE_SIDE)
    /\ NoSession

\* rows(), cols(), squares(), get_cells and the value setter are those of
\* board.py.
SpecLegacyBoard == LegacyBoardInit /\ [][BoardNext]_vars

\* C16: squares() of a board of src/sudoku/solver.py returns 9 groups, each
\* the 9 cells of one 3 x 3 box, its three rows one after the other, and every
\* cell is in exactly one group.
C16_LegacySquaresAreBoxes ==
    op = "Board.squares" =>
        LET side == N_CELLS_PER_SQUARE_SIDE
        IN /\ Len(ret.lists) = 9
           /\ \A g \in 1 .. Len(ret.lists) :
                 \E square \in PyRange(0, N_SQUARES(side)) :
                     ret.lists[g] = [cell \in 1 .. (side * side) |->
                                        CellId(side,
                                               square_to_coord(side, square, cell - 1)[1],
                                               square_to_coord(side, square, cell - 1)[2])]
           /\ \A id \in 1 .. (N_ROWS(side) * N_COLS(side)) :
                 Cardinality({g \in 1 .. Len(ret.lists) : id \in Elems(ret.lists[g])}) = 1

(***************************************************************************)
(* Cell.__eq__ (the same in board.py and in src/sudoku/solver.py).         *)
(***************************************************************************)
\* A plausible slip: the values are compared too.
Cell_eq_WithValue(self, other) ==
    self.row = other.row /\ self.col = other.col /\ self.value = other.value

\* Cell.__eq__(self, other)
Cell_eq(self, other) == self.row = other.row /\ self.col = other.col

\* The cells compared.
EqCells ==
    {Cell(N_CELLS_PER_SQUARE_SIDE, value, row, col).val :
        value \in {0, 5, 9}, row \in {0, 8}, col \in {0, 8}}

CellEqInit ==
    /\ op = "input"
    /\ arg \in [self : EqCells, other : EqCells]
    /\ ret = <<>>
    /\ board = <<>>
    /\ NoSession

\* self == other
CellEq ==
    /\ op = "input"
    /\ op' = "Cell.__eq__"
    /\ ret' = Returned(Cell_eq(arg.self, arg.other))
    /\ UNCHANGED <<arg, board, session>>

\* self != other: Python derives it from __eq__.
CellNe ==
    /\ op = "input"
    /\ op' = "Cell.__ne__"
    /\ ret' = Returned(~ Cell_eq(arg.self, arg.other))
    /\ UNCHANGED <<arg, board, session>>

CellEqNext ==
    \/ CellEq
    \/ CellNe

SpecCellEq == CellEqInit /\ [][CellEqNext]_vars

\* C17: two cells compare equal iff they have the same row and the same
\* column, whatever their values.
C17_EqualityByPosition ==
    /\ op = "Cell.__eq__" =>
          (ret.val <=> (arg.self.row = arg.other.row /\ arg.self.col = arg.other.col))
    /\ op = "Cell.__ne__" =>
          (ret.val <=> ~ (arg.self.row = arg.other.row /\ arg.self.col = arg.other.col))

\* Two cells at (8, 0) holding 5 and 9 compared equal.
C17_Witness ==
    /\ op = "Cell.__eq__"
    /\ arg.self = [value |-> 5, row |-> 8, col |-> 0]
    /\ arg.other = [value |-> 9, row |-> 8, col |-> 0]
    /\ ret.val = TRUE

(***************************************************************************)
(* The sessions of SpecSession and the mapping their formulas were built   *)
(* under.                                                                  *)
(***************************************************************************)
\* The operations that decode a model of the session made by Solver.create.
SolverDecodes == {"Solver.solve", "Solver.__iter__"}

\* C18: whatever Solver.create calls and worker constructions came before, a
\* session's instance formula is the translation of its board under the
\* mapping its rules formula was built under, a model is decoded under that
\* mapping, and the rules formula cached on the class is paired with the
\* mapping the shared LiteralTranslator holds.
C18_OneMappingPerSession ==
    /\ Live(solver) =>
          /\ solver.units = InstanceTranslate(ReducedSide, solver.rules, solver.board)
          /\ (op \in SolverDecodes /\ ret.exc = "none") => literal_tr = solver.rules
    /\ Live(worker) =>
          /\ worker.units = InstanceTranslate(ReducedSide, worker.rules, worker.board)
          /\ (op = "workers.Solver.resolve" /\ ret.exc = "none") => literal_tr = worker.rules
    /\ rules_formula # 0 => literal_tr = rules_formula

\* C20: a grid returned by solve, and every grid the iteration yields, holds
\* at each clue's cell the clue's value.
C20_CluesKept ==
    (op \in SolverDecodes /\ ret.exc = "none")
        => /\ Extends(ReducedSide, ret.val, arg)
           /\ \A i \in 1 .. Len(solver.yielded) :
                 Extends(ReducedSide, solver.yielded[i], solver.board)

(***************************************************************************)
(* SpecMinimize: a Minimizer of workers.py on the reduced board, in a      *)
(* process that also makes solver.Solver sessions.  In this section        *)
(* `worker` is the Minimizer: its board, the mapping its rules were built  *)
(* under, _result_formula, and untested_clues while resolve runs.          *)
(***************************************************************************)
\* The full grid handed to the Minimizer.
MinimizeGrids == {BaseGrid(ReducedSide)}

\* The oracle of a Minimizer: the rules built under mapping k and the clause
\* of _forbid_board_solution, which only the forbidden grid's own assignment
\* falsifies.  solve(assumptions) finds the solved grids other than the
\* forbidden one that make every assumption true.
AlternativeModels(k, forbidden, assumptions) ==
    {x \in SolvedAssignments :
        /\ x.mapping = k
        /\ x.cells # Elems(forbidden)
        /\ Elems(assumptions) \subseteq x.cells}

\* assumptions=self._result_formula + untested_clues
Assumptions(result, test_clue, untested) == result \o untested

\* The assumptions left when those at the positions in `order` are dropped one
\* after the other as long as the oracle stays unsatisfiable.
RECURSIVE Shrunk(_, _, _, _)
Shrunk(k, forbidden, kept, order) ==
    IF order = <<>> THEN kept
    ELSE LET without == SelectSeq(kept, LAMBDA l : l # Head(order))
         IN IF AlternativeModels(k, forbidden, without) = {}
            THEN Shrunk(k, forbidden, without, Tail(order))
            ELSE Shrunk(k, forbidden, kept, Tail(order))

\* A get_core that names no assumption at all.
Cores_Nothing(k, forbidden, assumptions) == {{}}

\* get_core() after an unsatisfiable solve: a set of assumptions that is
\* unsatisfiable with the formula.  Followed: all the assumptions, and the two
\* irreducible cores reached by dropping from the front and from the back.
Cores(k, forbidden, assumptions) ==
    LET reversed == [i \in 1 .. Len(assumptions) |-> assumptions[Len(assumptions) + 1 - i]]
    IN {Elems(assumptions),
        Elems(Shrunk(k, forbidden, assumptions, assumptions)),
        Elems(Shrunk(k, forbidden, assumptions, reversed))}

\* The Minimizer is inside resolve.
Resolving == Live(worker) /\ worker.pc = "loop"

\* Minimizer(board): the rules translator re-randomises the shared mapping,
\* the rules are loaded, _result_formula becomes the clue literals of the
\* board in row-major order and the clause of their negations is added.
MinimizerNew ==
    \E g \in MinimizeGrids, k \in 1 .. NumShuffles :
        /\ ~ Live(worker)
        /\ literal_tr' = k
        /\ worker' = [board |-> g, rules |-> k,
                      result |-> Flatten(InstanceTranslate(ReducedSide, k, g)),
                      forbidden |-> Flatten(InstanceTranslate(ReducedSide, k, g)),
                      untested |-> <<>>, pc |-> "made"]
        /\ op' = "Minimizer"
        /\ arg' = g
        /\ ret' = Returned(g)
        /\ board' = g
        /\ UNCHANGED <<rules_formula, solver>>

\* resolve(), up to the loop: the clues are copied and shuffled.
MinimizerResolve ==
    \E order \in 1 .. NumShuffles :
        /\ Live(worker)
        /\ worker.pc = "made"
        /\ worker' = [worker EXCEPT
                        !.untested = [i \in 1 .. Len(worker.result) |->
                                         worker.result[Shuffled(Len(worker.result), order, i)]],
                        !.result = <<>>,
                        !.pc = "loop"]
        /\ op' = "Minimizer.resolve"
        /\ arg' = worker.board
        /\ ret' = <<>>
        /\ UNCHANGED <<board, literal_tr, rules_formula, solver>>

\* One pass of the loop of resolve: the last untested clue is popped; if the
\* oracle has a model under the other clues the clue is kept, otherwise it is
\* dropped together with the untested clues outside the core.
MinimizerTest ==
    /\ Resolving
    /\ worker.untested # <<>>
    /\ LET test_clue == worker.untested[Len(worker.untested)]
           untested_clues == SubSeq(worker.untested, 1, Len(worker.untested) - 1)
           assumptions == Assumptions(worker.result, test_clue, untested_clues)
       IN IF AlternativeModels(worker.rules, worker.forbidden, assumptions) # {}
          THEN worker' = [worker EXCEPT !.result = Append(@, test_clue),
                                        !.untested = untested_clues]
          ELSE \E core \in Cores(worker.rules, worker.forbidden, assumptions) :
                  worker' = [worker EXCEPT
                                !.untested = SelectSeq(untested_clues, LAMBDA l : l \in core)]
    /\ UNCHANGED <<op, arg, ret, board, literal_tr, rules_formula, solver>>

\* The loop has ended: the kept clues are decoded, under the mapping the
\* shared LiteralTranslator holds now, into the board that is returned.
MinimizerReturn ==
    /\ Resolving
    /\ worker.untested = <<>>
    /\ ret' = ResultTranslate(ReducedSide, literal_tr, worker.result)
    /\ board' = ret'.val
    /\ worker' = [worker EXCEPT !.pc = "done"]
    /\ UNCHANGED <<op, arg, literal_tr, rules_formula, solver>>

\* Between the calls on the Minimizer the process creates its solver session,
\* for the puzzle with one completion.
MinimizeSolverCreate ==
    /\ ~ Resolving
    /\ ~ Live(solver)
    /\ SolverCreate
    /\ Cardinality(Completions(arg')) = 1

MinimizeNext ==
    \/ MinimizerNew
    \/ MinimizerResolve
    \/ MinimizerTest
    \/ MinimizerReturn
    \/ MinimizeSolverCreate

SpecMinimize == SessionInit /\ [][MinimizeNext]_vars

\* resolve has returned a board.
MinimizerReturned ==
    /\ op = "Minimizer.resolve"
    /\ Live(worker)
    /\ worker.pc = "done"

\* C19: the grid resolve returns for a full valid grid has that grid as its
\* only completion, and with any one of its clues emptied it has at least two,
\* for every shuffle and every core.
C19_MinimalPuzzle ==
    MinimizerReturned =>
        /\ ret.exc = "none"
        /\ Completions(ret.val) = {arg}
        /\ \A rc \in Coords(ReducedSide) :
              ret.val[rc[1]][rc[2]] # 0 =>
                  Cardinality(Completions([ret.val EXCEPT ![rc[1]][rc[2]] = 0])) >= 2

\* The clues resolve still holds: those kept and those not yet tested.
HeldClues == worker.result \o worker.untested

\* C25: at the start of every iteration of the loop of resolve, and when the
\* loop ends, the rules, the clause forbidding the full grid and the kept and
\* untested clues are unsatisfiable together, and the puzzle those clues make
\* has the full grid as its only completion.
C25_LoopInvariant ==
    Resolving =>
        /\ AlternativeModels(worker.rules, worker.forbidden, HeldClues) = {}
        /\ Completions(translate_sat_result(ReducedSide, worker.rules, HeldClues))
              = {worker.board}

\* A clue was kept, one was dropped with untested clues outside the core, and
\* clues remain to be tested.
C25_Witness ==
    /\ Resolving
    /\ worker.result # <<>>
    /\ Len(worker.untested) >= 2
    /\ Len(HeldClues) + 2 <= Len(worker.forbidden)

(***************************************************************************)
(* Generator._wipe_cells of src/sudoku/generator.py on a full 9 x 9 grid.  *)
(* In this section `arg` is the difficulty's multiplier.                   *)
(***************************************************************************)
\* _wipe_cells: the first pass of the while loop.  The shuffle decides which
\* filled cell is popped; the cell is emptied and Solver.create is called, and
\* what it raises leaves the method.  With no more filled cells than the
\* target the loop is not entered.
LegacyWipeCells(s, rows, multiplier, popped) ==
    LET non_empty_squares == get_cells(s, rows, TRUE)
        final_cell_number == _MIN_NUMBER_OF_VALUES * multiplier
        cell == non_empty_squares[popped]
        emptied == SetValue(s, rows, cell.row, cell.col, 0).val
        created == LegacySolverCreate(emptied)
    IN IF ~ (Len(non_empty_squares) > final_cell_number)
       THEN [exc |-> "none", rows |-> rows]
       ELSE [exc |-> created.exc, rows |-> emptied]

LegacyWipeInit ==
    /\ op = "input"
    /\ arg \in {d.value : d \in Difficulty}
    /\ ret = <<>>
    /\ board = BaseGrid(N_CELLS_PER_SQUARE_SIDE)
    /\ NoSession

LegacyWipe ==
    \E popped \in 1 .. Len(get_cells(N_CELLS_PER_SQUARE_SIDE, board, TRUE)) :
        LET out == LegacyWipeCells(N_CELLS_PER_SQUARE_SIDE, board, arg, popped) IN
        /\ op = "input"
        /\ op' = "sudoku.Generator._wipe_cells"
        /\ ret' = IF out.exc = "none" THEN Returned("None") ELSE Raised(out.exc)
        /\ board' = out.rows
        /\ UNCHANGED <<arg, session>>

LegacyWipeNext == LegacyWipe

SpecLegacyWipe == LegacyWipeInit /\ [][LegacyWipeNext]_vars

\* C21: _wipe_cells of src/sudoku returns with a puzzle of the full grid that
\* has at least 17 x multiplier clues, every emptied cell having been tested
\* for a single solution.
C21_LegacyWipeKeepsTarget ==
    op = "sudoku.Generator._wipe_cells" =>
        /\ ret.exc = "none"
        /\ Len(get_cells(N_CELLS_PER_SQUARE_SIDE, board, TRUE)) >= _MIN_NUMBER_OF_VALUES * arg
        /\ Extends(N_CELLS_PER_SQUARE_SIDE, BaseGrid(N_CELLS_PER_SQUARE_SIDE), board)

(***************************************************************************)
(* BoardTester (board.py) on the Board object of SpecBoard.  In this       *)
(* section `arg` is the call's (row, col, value) and the cell values the   *)
(* board held before the call.                                             *)
(***************************************************************************)
\* Board.from_matrix on the object: the values reach the cells of the rows.
BoardFromMatrix(s, matrix) ==
    [NewBoard(s) EXCEPT !.value =
        [id \in 1 .. (N_ROWS(s) * N_COLS(s)) |-> matrix[CellCoord(s, id)[1]][CellCoord(s, id)[2]]]]

\* A plausible slip: the first cell of the sequence is not looked at.
is_cell_value_present_SkipFirst(b, cell, seq) ==
    \E i \in 2 .. Len(seq) : b.value[seq[i]] = cell.value

\* BoardTester._is_cell_value_present(cell, seq)
is_cell_value_present(b, cell, seq) ==
    \E i \in 1 .. Len(seq) : b.value[seq[i]] = cell.value

\* BoardTester.is_cell_correct(row, col, value): a new Cell is made (the
\* setter may refuse the value), then the row, the column and the square are
\* tried in this order through the board's accessors.
BoardTesterIsCellCorrect(s, b, row, col, value) ==
    LET cell == Cell(s, value, row, col)
    IN IF cell.exc # "none" THEN cell
       ELSE IF is_cell_value_present(b, cell.val, BoardView(b, "rows").lists[cell.val.row + 1])
       THEN Returned(FALSE)
       ELSE IF is_cell_value_present(b, cell.val, BoardView(b, "cols").lists[cell.val.col + 1])
       THEN Returned(FALSE)
       ELSE IF is_cell_value_present(b, cell.val,
                   BoardView(b, "squares").lists[
                       coord_to_square(s, cell.val.row, cell.val.col)[1] + 1])
       THEN Returned(FALSE)
       ELSE Returned(TRUE)

\* The boards tested: the empty one, a full grid, and the grid with two cells
\* of every three emptied.
TesterBoards ==
    LET side == N_CELLS_PER_SQUARE_SIDE
    IN {BoardFromMatrix(side, empty_board(side)),
        BoardFromMatrix(side, BaseGrid(side)),
        BoardFromMatrix(side, Blanked(side, BaseGrid(side),
                                      {rc \in Coords(side) : (rc[1] + (2 * rc[2])) % 3 # 0}))}

TesterInit ==
    /\ op = "BoardTester"
    /\ arg = <<>>
    /\ ret = <<>>
    /\ board \in TesterBoards
    /\ NoSession

IsCellCorrect ==
    \E rc \in Coords(N_CELLS_PER_SQUARE_SIDE) :
      \E value \in 1 .. VALUE_RANGE(N_CELLS_PER_SQUARE_SIDE)[2] :
        /\ op' = "BoardTester.is_cell_correct"
        /\ arg' = [row |-> rc[1], col |-> rc[2], value |-> value, before |-> board.value]
        /\ ret' = BoardTesterIsCellCorrect(N_CELLS_PER_SQUARE_SIDE, board, rc[1], rc[2], value)
        /\ UNCHANGED <<board, session>>

TesterNext == IsCellCorrect

SpecTester == TesterInit /\ [][TesterNext]_vars

\* The value the board holds at a position.
ValueAt(s, b, row, col) == b.value[CellId(s, row, col)]

\* C22: for a value in 1..9 is_cell_correct returns False exactly when a cell
\* of the row, of the column or of the 3 x 3 box of (row, col) holds the value,
\* True otherwise (a disjunction, so the order of the three checks is
\* immaterial), and the board's cells are as before the call.
C22_IsCellCorrect ==
    op = "BoardTester.is_cell_correct" =>
        LET side == N_CELLS_PER_SQUARE_SIDE
            in_row == \E c \in PyRange(0, N_COLS(side)) :
                          ValueAt(side, board, arg.row, c) = arg.value
            in_col == \E r \in PyRange(0, N_ROWS(side)) :
                          ValueAt(side, board, r, arg.col) = arg.value
            in_box == \E rc \in BlockOf(side, ((arg.row \div side) * side) + (arg.col \div side)) :
                          ValueAt(side, board, rc[1], rc[2]) = arg.value
        IN /\ ret.exc = "none"
           /\ ret.val = ~ (in_row \/ in_col \/ in_box)
           /\ board.value = arg.before
           /\ board._rows = BoardRows(side)

\* The value 5 is offered for (2, 0) on the thinned grid: only the box holds
\* it (at (1, 1)), neither row 2 nor column 0 does, and the answer is False.
C22_Witness ==
    /\ op = "BoardTester.is_cell_correct"
    /\ arg.row = 2 /\ arg.col = 0 /\ arg.value = 5
    /\ ValueAt(N_CELLS_PER_SQUARE_SIDE, board, 1, 1) = 5
    /\ \A i \in PyRange(0, 9) :
          /\ ValueAt(N_CELLS_PER_SQUARE_SIDE, board, 2, i) # 5
          /\ ValueAt(N_CELLS_PER_SQUARE_SIDE, board, i, 0) # 5
    /\ ret.val = FALSE

(***************************************************************************)
(* ResultTranslator.translate on arbitrary lists of literals, 9 x 9 board. *)
(* literal_tr is the shared LiteralTranslator: 0 until a RulesTranslator   *)
(* has been constructed in the process.                                    *)
(***************************************************************************)
\* ResultTranslator.translate(sat_result) while the shared mapping is k.
\* Before the first randomize_values _randomized_matrix is [], and
\* _literal_to_value indexes it with the row.
ResultTranslatorTranslate(s, k, sat_result) ==
    IF k = 0 THEN Raised("IndexError") ELSE ResultTranslate(s, k, sat_result)

\* The lists decoded: empty, negative only, above the problem variables,
\* repeated, two candidates of one cell, and short mixed lists.
DecodeLists ==
    {<<>>, <<-1, -5, -729>>, <<730, 9000>>, <<5, 5, 5, -5>>, <<1, 2, 3, 4, 5, 6, 7, 8, 9>>}
    \cup {<<v, - (v + 1), max_problem_variable(N_CELLS_PER_SQUARE_SIDE) + v, 730 - v>> :
            v \in 1 .. 40}

DecodeInit ==
    /\ op = "none"
    /\ arg = <<>>
    /\ ret = <<>>
    /\ board = <<>>
    /\ NoSession

\* Translator.create(TranslatorType.GameRules): the constructor shuffles.
RulesTranslatorNew ==
    \E k \in 1 .. NumShuffles :
        /\ literal_tr' = k
        /\ op' = "RulesTranslator"
        /\ arg' = <<>>
        /\ ret' = <<>>
        /\ UNCHANGED <<board, rules_formula, solver, worker>>

\* Translator.create(TranslatorType.SudokuResult).translate(sat_result)
ResultTranslatorCall ==
    \E sat_result \in DecodeLists :
        /\ op' = "ResultTranslator.translate"
        /\ arg' = sat_result
        /\ ret' = ResultTranslatorTranslate(N_CELLS_PER_SQUARE_SIDE, literal_tr, sat_result)
        /\ board' = ret'.val
        /\ UNCHANGED session

DecodeNext ==
    \/ RulesTranslatorNew
    \/ ResultTranslatorCall

SpecDecode == DecodeInit /\ [][DecodeNext]_vars

\* The decoded board claimed for a list: at each cell the first of its 9
\* candidates whose literal is in the list, 0 when none is.
DecodedCell(s, k, row, col, sat_result) ==
    LET hits == {value \in 1 .. VALUE_RANGE(s)[2] :
                    cell_to_literal(s, k, [value |-> value, row |-> row, col |-> col])
                        \in Elems(sat_result)}
    IN IF hits = {} THEN 0 ELSE CHOOSE value \in hits : \A other \in hits : value <= other

\* C23: translate raises nothing on a list of non-zero literals; negative
\* literals and literals above 729 contribute nothing, a cell none of whose 9
\* candidate literals is in the list decodes to 0, and every value is in 0..9.
C23_DecodeNeverFails ==
    op = "ResultTranslator.translate" =>
        /\ ret.exc = "none"
        /\ \A rc \in Coords(N_CELLS_PER_SQUARE_SIDE) :
              /\ board[rc[1]][rc[2]] \in 0 .. VALUE_RANGE(N_CELLS_PER_SQUARE_SIDE)[2]
              /\ board[rc[1]][rc[2]]
                    = DecodedCell(N_CELLS_PER_SQUARE_SIDE, literal_tr, rc[1], rc[2], arg)

(***************************************************************************)
(* Controller and Game of the application, on the reduced board.  In this  *)
(* section `board` is the rows of Game._board (<<>> for None), `worker` is *)
(* the rest of the Game object and `solver` is the Controller together     *)
(* with the file the application reads and writes.  Board objects carry a  *)
(* number, since Board defines no __eq__ and == on boards is identity.     *)
(***************************************************************************)
\* The puzzles found in the file at start: the base grid with two cells
\* emptied.  The cells of the first have (square, cell) = (row, col).
GameBlanks == {{<<0, 0>>, <<1, 2>>}, {<<0, 2>>, <<3, 1>>}}

GamePuzzles ==
    {Blanked(ReducedSide, BaseGrid(ReducedSide), blank) : blank \in GameBlanks}

\* The keys pressed: backspace, a letter and two digits.
GameKeys == {"Key_Backspace", "x", "1", "3"}

\* The selections of the view: none, the (square, cell) pairs of the emptied
\* cells, and the pairs that read like their (row, col).
SelectedCells ==
    {<<>>} \cup UNION GameBlanks
           \cup {coord_to_square(ReducedSide, rc[1], rc[2]) : rc \in UNION GameBlanks}

\* The file names given: none, the file of the game, and a path in a
\* directory that does not exist.
GameFile == "a.sdk"
FileNames == {"", GameFile, "b/c.sdk"}

\* The difficulty names the view sets.
GameDifficulties == {<<>>, <<"E", "a", "s", "y">>}

DecimalDigits == <<"0", "1", "2", "3", "4", "5", "6", "7", "8", "9">>

\* str(n) of a digit
digit_str(n) == DecimalDigits[n + 1]

\* int(chr(value)) of a key
int_chr(value) ==
    IF \E i \in 1 .. Len(DecimalDigits) : DecimalDigits[i] = value
    THEN Returned((CHOOSE i \in 1 .. Len(DecimalDigits) : DecimalDigits[i] = value) - 1)
    ELSE Raised("ValueError")

\* load(open(filename, "rb"))
load(disk, filename) ==
    IF filename = GameFile /\ disk.exists
    THEN Returned(disk.board)
    ELSE Raised("FileNotFoundError")

\* dump(rows, open(filename, "wb")): the file afterwards
dump(disk, rows, filename) ==
    IF filename = GameFile
    THEN Returned([exists |-> TRUE, board |-> rows])
    ELSE Raised("FileNotFoundError")

\* Game.__init__
NoGame ==
    [_editable_values |-> {}, _solution |-> <<>>, _difficulty |-> <<>>,
     board_id |-> -1, solution_id |-> -1]

\* The number of a new Board object: one no live board has.
NewObject(game) ==
    LET free == (0 .. 2) \ {game.board_id, game.solution_id}
    IN CHOOSE id \in free : \A other \in free : id <= other

\* Board == Board: object.__eq__
Board_eq(a_id, b_id) == a_id = b_id

\* Game._notify_view_new_board: the (square, cell) pairs of the cells that
\* hold 0.
notify_view_new_board(s, rows) ==
    {coord_to_square(s, rc[1], rc[2]) : rc \in {x \in Coords(s) : rows[x[1]][x[2]] = 0}}

\* Game.board = value, value being the object with number id or None.
GameSetBoard(game, value, id) ==
    [exc |-> IF value = <<>> THEN "AttributeError" ELSE "none",
     game |-> [game EXCEPT
                  !._editable_values =
                      IF value = <<>> THEN {} ELSE notify_view_new_board(ReducedSide, value),
                  !._solution = <<>>,
                  !.solution_id = -1,
                  !.board_id = id],
     emitted |-> IF value = <<>> THEN <<>>
                 ELSE [k \in 1 .. (N_ROWS(ReducedSide) * N_COLS(ReducedSide)) |-> "cell_changed"]]

\* change_cell_value that writes whatever pair it is given.
change_cell_value_Unchecked(s, game, rows, value, square, cell) ==
    LET rc == square_to_coord(s, square, cell)
    IN [rows |-> SetValue(s, rows, rc[1], rc[2], value).val, emitted |-> <<"cell_changed">>]

\* Game.change_cell_value(value, square, cell)
change_cell_value(s, game, rows, value, square, cell) ==
    LET rc == square_to_coord(s, square, cell)
    IN IF <<square, cell>> \in game._editable_values
       THEN [rows |-> SetValue(s, rows, rc[1], rc[2], value).val,
             emitted |-> <<"cell_changed">>]
       ELSE [rows |-> rows, emitted |-> <<>>]

\* Controller.key_pressed(value, selected_cell): _is_saved and the rows
\* afterwards, and what the model emitted.
key_pressed(s, controller, game, rows, value, selected_cell) ==
    LET digit == int_chr(IF value = "Key_Backspace" THEN "0" ELSE value)
        untouched == [_is_saved |-> controller._is_saved, rows |-> rows, emitted |-> <<>>]
    IN IF selected_cell = <<>> \/ rows = <<>> THEN untouched
       ELSE IF digit.exc = "ValueError" THEN untouched
       ELSE LET changed == change_cell_value(s, game, rows, digit.val,
                                             selected_cell[1], selected_cell[2])
            IN [_is_saved |-> FALSE, rows |-> changed.rows, emitted |-> changed.emitted]

\* Sudoku.solve(matrix) in the process of the application, where only
\* Solver.create builds translators: a completion, or InvalidMatrixError.
GameSudokuSolve(matrix) ==
    IF Completions(matrix) = {}
    THEN {Raised("InvalidMatrixError")}
    ELSE {Returned(g) : g \in Completions(matrix)}

\* Controller._calculate_solution: a copy of the board, the entries of
\* editable_values unpacked as row, col and those cells set to 0, then
\* Sudoku.solve.  `handed` is the matrix given to Sudoku.solve.
calculate_solution(s, game, rows) ==
    LET initial_board ==
            [row \in PyRange(0, N_ROWS(s)) |->
                [col \in PyRange(0, N_COLS(s)) |->
                    IF <<row, col>> \in game._editable_values THEN 0 ELSE rows[row][col]]]
    IN {[exc |-> solved.exc, solution |-> solved.val, handed |-> initial_board,
         id |-> NewObject(game)] : solved \in GameSudokuSolve(initial_board)}

\* Controller._get_solution: the stored solution, or a calculated one.
get_solution(s, game, rows) ==
    IF game._solution # <<>>
    THEN {[exc |-> "none", solution |-> game._solution, handed |-> <<>>,
           id |-> game.solution_id]}
    ELSE calculate_solution(s, game, rows)

\* self._model.solution = solution, when _get_solution returned one.
SolutionKept(game, found) ==
    IF found.exc = "none"
    THEN [game EXCEPT !._solution = found.solution, !.solution_id = found.id]
    ELSE game

\* What a call of the controller left: the exception that came out of it, the
\* signals the model emitted, the matrix handed to Sudoku.solve if any.
Outcome(exc, emitted, handed) == [exc |-> exc, val |-> emitted, handed |-> handed]

GameInit ==
    /\ op = "none"
    /\ arg = <<>>
    /\ ret = <<>>
    /\ board = <<>>
    /\ literal_tr = 0
    /\ rules_formula = 0
    /\ worker = NoGame
    /\ \E puzzle \in GamePuzzles :
          solver = [_filename |-> "", _is_saved |-> TRUE,
                    disk |-> [exists |-> TRUE, board |-> puzzle]]

\* Controller.open(filename)
ControllerOpen ==
    \E filename \in FileNames :
        /\ op' = "Controller.open"
        /\ arg' = [filename |-> filename]
        /\ IF filename # ""
           THEN LET loaded == load(solver.disk, filename)
                    set == GameSetBoard(worker, loaded.val,
                                        IF loaded.val = <<>> THEN -1 ELSE NewObject(worker))
                IN IF loaded.exc # "none"
                   THEN /\ solver' = [solver EXCEPT !._filename = filename]
                        /\ ret' = Outcome("none", <<>>, <<>>)
                        /\ UNCHANGED <<board, worker>>
                   ELSE /\ solver' = [solver EXCEPT !._filename = filename, !._is_saved = TRUE]
                        /\ board' = loaded.val
                        /\ worker' = set.game
                        /\ ret' = Outcome("none", set.emitted, <<>>)
           ELSE /\ ret' = Outcome("none",
                                  (IF ~ solver._is_saved THEN <<"not_saved(True)">> ELSE <<>>)
                                      \o <<"load()">>,
                                  <<>>)
                /\ UNCHANGED <<board, worker, solver>>
        /\ UNCHANGED <<literal_tr, rules_formula>>

\* Controller.save(filename)
ControllerSave ==
    \E filename \in FileNames :
        /\ op' = "Controller.save"
        /\ arg' = [filename |-> filename]
        /\ LET named == IF filename # "" THEN filename ELSE solver._filename
               written == dump(solver.disk, board, filename)
           IN IF named # ""
              THEN /\ solver' = [solver EXCEPT
                                    !._filename = named,
                                    !._is_saved = TRUE,
                                    !.disk = IF written.exc = "none" THEN written.val ELSE @]
                   /\ ret' = Outcome("none", <<>>, <<>>)
              ELSE /\ ret' = Outcome("none", <<"not_saved(False)">>, <<>>)
                   /\ UNCHANGED solver
        /\ UNCHANGED <<board, worker, literal_tr, rules_formula>>

\* Controller.set_difficulty(difficulty)
ControllerSetDifficulty ==
    \E difficulty \in GameDifficulties :
        /\ op' = "Controller.set_difficulty"
        /\ arg' = [difficulty |-> difficulty]
        /\ ret' = Outcome("none", <<>>, <<>>)
        /\ worker' = [worker EXCEPT !._difficulty = difficulty]
        /\ UNCHANGED <<board, solver, literal_tr, rules_formula>>

\* Sudoku.generate(difficulty) as the controller calls it: the lookup of the
\* name, then the generator, which leaves through _wipe_cells.
GameSudokuGenerate(difficulty) ==
    IF DifficultyLookup(title(difficulty)).exc = "KeyError"
    THEN Raised("InvalidDifficultyError")
    ELSE wipe_cells(BaseGrid(ReducedSide))

\* Controller.start_new_game(is_difficulty_setted)
ControllerStartNewGame ==
    \E is_difficulty_setted \in BOOLEAN :
        /\ op' = "Controller.start_new_game"
        /\ arg' = [is_difficulty_setted |-> is_difficulty_setted]
        /\ LET asked == IF ~ solver._is_saved THEN <<"not_saved(True)">> ELSE <<>>
               generated == GameSudokuGenerate(worker._difficulty)
               set == GameSetBoard(worker, generated.val, NewObject(worker))
           IN IF is_difficulty_setted /\ worker._difficulty # <<>>
              THEN /\ solver' = [solver EXCEPT !._filename = "", !._is_saved = FALSE]
                   /\ IF generated.exc # "none"
                      THEN /\ ret' = Outcome(generated.exc, asked, <<>>)
                           /\ UNCHANGED <<board, worker>>
                      ELSE /\ ret' = Outcome("none", asked \o set.emitted, <<>>)
                           /\ board' = generated.val
                           /\ worker' = set.game
              ELSE /\ solver' = [solver EXCEPT !._is_saved = TRUE]
                   /\ ret' = Outcome("none", asked \o <<"new_game()">>, <<>>)
                   /\ UNCHANGED <<board, worker>>
        /\ UNCHANGED <<literal_tr, rules_formula>>

\* Controller.key_pressed(value, selected_cell), called by the view.
ControllerKeyPressed ==
    \E value \in GameKeys, selected_cell \in SelectedCells :
        LET pressed == key_pressed(ReducedSide, solver, worker, board, value, selected_cell)
        IN /\ op' = "Controller.key_pressed"
           /\ arg' = [value |-> value, selected_cell |-> selected_cell]
           /\ ret' = Outcome("none", pressed.emitted, <<>>)
           /\ board' = pressed.rows
           /\ solver' = [solver EXCEPT !._is_saved = pressed._is_saved]
           /\ UNCHANGED <<worker, literal_tr, rules_formula>>

\* Controller.hint(): the empty cells are shuffled and the first whose value
\* differs from the solution's is given that value through key_pressed.
\* arg.before is the board before the call.
ControllerHint ==
    /\ op' = "Controller.hint"
    /\ arg' = [before |-> board]
    /\ IF board = <<>>
       THEN /\ ret' = Outcome("AttributeError", <<>>, <<>>)
            /\ UNCHANGED <<board, worker, solver>>
       ELSE \E found \in get_solution(ReducedSide, worker, board) :
               LET possible_hints ==
                       {cell \in Elems(get_cells(ReducedSide, board, FALSE)) :
                           cell.value # found.solution[cell.row][cell.col]}
               IN /\ worker' = SolutionKept(worker, found)
                  /\ IF found.exc # "none" \/ possible_hints = {}
                     THEN /\ ret' = Outcome(found.exc, <<>>, found.handed)
                          /\ UNCHANGED <<board, solver>>
                     ELSE \E cell \in possible_hints :
                             LET correct_value == found.solution[cell.row][cell.col]
                                 pressed == key_pressed(ReducedSide, solver, worker, board,
                                                digit_str(correct_value),
                                                coord_to_square(ReducedSide, cell.row, cell.col))
                             IN /\ ret' = Outcome("none", pressed.emitted, found.handed)
                                /\ board' = pressed.rows
                                /\ solver' = [solver EXCEPT !._is_saved = pressed._is_saved]
    /\ UNCHANGED <<literal_tr, rules_formula>>

\* Controller.check()
ControllerCheck ==
    /\ op' = "Controller.check"
    /\ arg' = <<>>
    /\ IF board = <<>>
       THEN /\ ret' = Outcome("AttributeError", <<>>, <<>>)
            /\ UNCHANGED worker
       ELSE \E found \in get_solution(ReducedSide, worker, board) :
               /\ worker' = SolutionKept(worker, found)
               /\ ret' = IF found.exc # "none"
                         THEN Outcome(found.exc, <<>>, found.handed)
                         ELSE Outcome("none",
                                      IF Board_eq(found.id, worker.board_id)
                                      THEN <<"is_board_correct(True)">>
                                      ELSE <<"is_board_correct(False)">>,
                                      found.handed)
    /\ UNCHANGED <<board, solver, literal_tr, rules_formula>>

\* Controller.autosolve()
ControllerAutosolve ==
    /\ op' = "Controller.autosolve"
    /\ arg' = <<>>
    /\ IF board = <<>>
       THEN /\ ret' = Outcome("AttributeError", <<>>, <<>>)
            /\ UNCHANGED <<board, worker>>
       ELSE \E found \in get_solution(ReducedSide, worker, board) :
               LET set == GameSetBoard(SolutionKept(worker, found), found.solution, found.id)
               IN IF found.exc # "none"
                  THEN /\ ret' = Outcome(found.exc, <<>>, found.handed)
                       /\ UNCHANGED <<board, worker>>
                  ELSE /\ ret' = Outcome("none", set.emitted, found.handed)
                       /\ board' = found.solution
                       /\ worker' = set.game
    /\ UNCHANGED <<solver, literal_tr, rules_formula>>

\* A game played on the board of the file: nothing is saved.
GameNext ==
    \/ ControllerOpen
    \/ ControllerKeyPressed
    \/ ControllerHint
    \/ ControllerCheck
    \/ ControllerAutosolve

SpecGame == GameInit /\ [][GameNext]_vars

\* Opening, saving, starting games and typing.
FilesNext ==
    \/ ControllerOpen
    \/ ControllerSave
    \/ ControllerSetDifficulty
    \/ ControllerStartNewGame
    \/ ControllerKeyPressed

SpecFiles == GameInit /\ [][FilesNext]_vars

\* The emptied and typed cells differ at (row, col) between two boards.
ChangedCells(before, after) ==
    {rc \in Coords(ReducedSide) : after[rc[1]][rc[2]] # before[rc[1]][rc[2]]}

\* The (row, col) of the cells whose (square, cell) pair is editable.
EditableCells(game) ==
    {square_to_coord(ReducedSide, pair[1], pair[2]) : pair \in game._editable_values}

\* C24: check emits is_board_correct(True) exactly when every cell of the
\* board holds the value of the solution's cell, and is_board_correct(False)
\* otherwise; a board filled in correctly by key presses is reported correct.
C24_CheckComparesValues ==
    (op = "Controller.check" /\ ret.exc = "none") =>
        /\ ("is_board_correct(True)" \in Elems(ret.val)) <=> (board = worker._solution)
        /\ ("is_board_correct(False)" \in Elems(ret.val)) <=> (board # worker._solution)

\* C27: the matrix _calculate_solution hands to Sudoku.solve is the board
\* with exactly the editable cells set to 0 and every other cell at its
\* value, whatever was typed.
C27_OriginalPuzzleSolved ==
    (op \in {"Controller.check", "Controller.hint"} /\ ret.handed # <<>>) =>
        ret.handed = Blanked(ReducedSide, board, EditableCells(worker))

\* C28: between two assignments of Game.board the editable set does not
\* change and no cell outside it is written; an assignment makes the editable
\* set the pairs of the cells that are empty then; so a cell outside the
\* editable set is never empty and keeps the value it had when the board was
\* set, through key presses and hints.
C28_CluesKept ==
    /\ [](board # <<>> =>
            \A rc \in Coords(ReducedSide) \ EditableCells(worker) : board[rc[1]][rc[2]] # 0)
    /\ [][IF worker'.board_id # worker.board_id
          THEN worker'._editable_values =
                  {coord_to_square(ReducedSide, rc[1], rc[2]) :
                      rc \in {x \in Coords(ReducedSide) : board'[x[1]][x[2]] = 0}}
          ELSE /\ worker'._editable_values = worker._editable_values
               /\ board # <<>> =>
                     \A rc \in Coords(ReducedSide) \ EditableCells(worker) :
                         board'[rc[1]][rc[2]] = board[rc[1]][rc[2]]]_vars

\* A digit was typed on a selected clue cell of a board that holds a typed
\* value in an editable cell, and the board has a stored solution (a hint or
\* a check came before).
C28_Witness ==
    /\ op = "Controller.key_pressed"
    /\ arg.value = "3"
    /\ arg.selected_cell # <<>>
    /\ arg.selected_cell \notin worker._editable_values
    /\ worker._solution # <<>>
    /\ \E rc \in EditableCells(worker) : board[rc[1]][rc[2]] # 0

\* C29: _is_saved is True only if the board is what the file named by
\* _filename holds, after any sequence of open, save, key_pressed and
\* start_new_game calls.
C29_SavedMeansWritten ==
    (solver._is_saved /\ board # <<>>) =>
        load(solver.disk, solver._filename) = Returned(board)

\* C30: a hint on a board with an empty cell sets exactly one empty cell to
\* the value the solution has there and changes no other cell; on a board
\* with no empty cell it changes nothing.
C30_HintFillsOneCell ==
    (op = "Controller.hint" /\ arg.before # <<>>) =>
        IF get_cells(ReducedSide, arg.before, FALSE) # <<>>
        THEN /\ ret.exc = "none"
             /\ Cardinality(ChangedCells(arg.before, board)) = 1
             /\ \A rc \in ChangedCells(arg.before, board) :
                   /\ arg.before[rc[1]][rc[2]] = 0
                   /\ board[rc[1]][rc[2]] = worker._solution[rc[1]][rc[2]]
        ELSE ChangedCells(arg.before, board) = {}

====
